---- MODULE Spec2Model ----
(***************************************************************************)
(* Model of the document extraction pipeline (modules/extractor.py) and of *)
(* the auction / contract registries (modules/database.py).                *)
(*                                                                         *)
(* A page text is modelled as the set of its lines, each line drawn from   *)
(* the vocabulary TRECHOS.  No keyword or pattern of the classifier spans  *)
(* two lines of the vocabulary, so "keyword in text" is "some line of the  *)
(* text contains the keyword"; the table PALAVRAS records, for every line, *)
(* which keywords and patterns of the source occur in its upper-cased form.*)
(***************************************************************************)
EXTENDS Integers, Sequences, FiniteSets, TLC

VARIABLES
  pdf,             \* the PDF file given to extrair_processo
  OCR_DISPONIVEL,  \* whether the OCR libraries were imported
  hoje,            \* hoje_cg(), as a proleptic ordinal
  pc,              \* position inside extrair_processo
  paginas,         \* the list returned by _extrair_paginas
  classificadas,   \* the dict returned by _classificar_paginas
  resultado,       \* the result dict of extrair_processo
  pregoes,         \* rows of table pregoes, in id order
  contratos,       \* rows of table contratos, in id order
  relogio,         \* CURRENT_TIMESTAMP
  ultima_chamada,  \* arguments of the last registration (history)
  repetida,        \* the last registration repeated the one before (history)
  sessoes,         \* the registrations in progress, each on its own connection
  outra,           \* the locals of a second, suspended call of extrair_processo
  chamada          \* the direct call of a parsing function: name, input, output

extracao == <<pdf, OCR_DISPONIVEL, hoje, pc, paginas, classificadas, resultado>>

banco == <<pregoes, contratos, relogio, ultima_chamada, repetida, sessoes>>

vars == <<extracao, banco, outra, chamada>>

NULL == "None"

(* ---------------------------------------------------------------------- *)
(* Bounds                                                                  *)
(* ---------------------------------------------------------------------- *)
MaxPaginas == 1
MaxTrechos == 2
MaxRegistros == 2
MaxLinhasContrato == 3
MaxLancamentos == 3
MaxLinhasMascara == 5
MaxDigitosPregao == 5
MaxLinhasTabela == 4

(* ---------------------------------------------------------------------- *)
(* Program constants                                                       *)
(* ---------------------------------------------------------------------- *)
MIN_TEXTO_UTIL == 30

(* ---------------------------------------------------------------------- *)
(* Vocabulary of page lines                                                *)
(* ---------------------------------------------------------------------- *)
RODAPE == "Este documento é peça do processo 64136.001234/2025-11 Pág 1 de 9"

TRECHOS ==
  { "PROCESSO NUP 64136.001234/2025-11",
    "Termo de Abertura",
    "DESPACHO Nº 12",
    "Aprovo a despesa",
    "Encaminho ao OD",
    "CHECK LIST DE CONTRATO",
    "Ao Sr Ordenador de Despesas",
    "TIPO DE EMPENHO: Global",
    "NOTA DE CRÉDITO 2025NC000123 DATA EMISSÃO 10/01/2025",
    "EMPH ATÉ 30 DIAS.",
    "EMPH ATÉ 9999999 DIAS.",
    "DADOS DO FORNECEDOR - SITUAÇÃO DO FORNECEDOR: CREDENCIADO",
    "CADIN - CONSULTA CONTRATANTE",
    "CONSULTA CONSOLIDADA DE PESSOA JURÍDICA - RESULTADO",
    "TERMO DE CONTRATO Nº 59/2024",
    "ITEM DESCRICAO UND QTD P. UNT P. TOTAL 1 CANETA UN 10,000 R$ 5,00 R$ 50,00",
    RODAPE }

\* len() of each line
TAMANHO ==
  "PROCESSO NUP 64136.001234/2025-11" :> 33 @@
  "Termo de Abertura" :> 17 @@
  "DESPACHO Nº 12" :> 14 @@
  "Aprovo a despesa" :> 16 @@
  "Encaminho ao OD" :> 15 @@
  "CHECK LIST DE CONTRATO" :> 22 @@
  "Ao Sr Ordenador de Despesas" :> 27 @@
  "TIPO DE EMPENHO: Global" :> 23 @@
  "NOTA DE CRÉDITO 2025NC000123 DATA EMISSÃO 10/01/2025" :> 52 @@
  "EMPH ATÉ 30 DIAS." :> 17 @@
  "EMPH ATÉ 9999999 DIAS." :> 22 @@
  "DADOS DO FORNECEDOR - SITUAÇÃO DO FORNECEDOR: CREDENCIADO" :> 57 @@
  "CADIN - CONSULTA CONTRATANTE" :> 28 @@
  "CONSULTA CONSOLIDADA DE PESSOA JURÍDICA - RESULTADO" :> 51 @@
  "TERMO DE CONTRATO Nº 59/2024" :> 28 @@
  "ITEM DESCRICAO UND QTD P. UNT P. TOTAL 1 CANETA UN 10,000 R$ 5,00 R$ 50,00" :> 74 @@
  RODAPE :> 65

\* str.upper() of each line
MAIUSCULAS ==
  "PROCESSO NUP 64136.001234/2025-11" :> "PROCESSO NUP 64136.001234/2025-11" @@
  "Termo de Abertura" :> "TERMO DE ABERTURA" @@
  "DESPACHO Nº 12" :> "DESPACHO Nº 12" @@
  "Aprovo a despesa" :> "APROVO A DESPESA" @@
  "Encaminho ao OD" :> "ENCAMINHO AO OD" @@
  "CHECK LIST DE CONTRATO" :> "CHECK LIST DE CONTRATO" @@
  "Ao Sr Ordenador de Despesas" :> "AO SR ORDENADOR DE DESPESAS" @@
  "TIPO DE EMPENHO: Global" :> "TIPO DE EMPENHO: GLOBAL" @@
  "NOTA DE CRÉDITO 2025NC000123 DATA EMISSÃO 10/01/2025" :> "NOTA DE CRÉDITO 2025NC000123 DATA EMISSÃO 10/01/2025" @@
  "EMPH ATÉ 30 DIAS." :> "EMPH ATÉ 30 DIAS." @@
  "EMPH ATÉ 9999999 DIAS." :> "EMPH ATÉ 9999999 DIAS." @@
  "DADOS DO FORNECEDOR - SITUAÇÃO DO FORNECEDOR: CREDENCIADO" :> "DADOS DO FORNECEDOR - SITUAÇÃO DO FORNECEDOR: CREDENCIADO" @@
  "CADIN - CONSULTA CONTRATANTE" :> "CADIN - CONSULTA CONTRATANTE" @@
  "CONSULTA CONSOLIDADA DE PESSOA JURÍDICA - RESULTADO" :> "CONSULTA CONSOLIDADA DE PESSOA JURÍDICA - RESULTADO" @@
  "TERMO DE CONTRATO Nº 59/2024" :> "TERMO DE CONTRATO Nº 59/2024" @@
  "ITEM DESCRICAO UND QTD P. UNT P. TOTAL 1 CANETA UN 10,000 R$ 5,00 R$ 50,00" :> "ITEM DESCRICAO UND QTD P. UNT P. TOTAL 1 CANETA UN 10,000 R$ 5,00 R$ 50,00" @@
  RODAPE :> "ESTE DOCUMENTO É PEÇA DO PROCESSO 64136.001234/2025-11 PÁG 1 DE 9" @@
  "DOCUMENTO WEB : 2025NC000123 DATA EMISSAO : 10Jan25" :> "DOCUMENTO WEB : 2025NC000123 DATA EMISSAO : 10JAN25" @@
  "DOCUMENTO WEB : 2025NC000123" :> "DOCUMENTO WEB : 2025NC000123" @@
  "EMPENHO ATÉ 30JUN25" :> "EMPENHO ATÉ 30JUN25" @@
  "EMPENHO ATÉ 30 DIAS" :> "EMPENHO ATÉ 30 DIAS" @@
  "Prazo de empenho 30 DIAS." :> "PRAZO DE EMPENHO 30 DIAS."

\* keywords (substrings) and patterns (re_...) of the classifier, of the
\* credit-note format detection and of the OCR mirror test found in each
\* upper-cased line
PALAVRAS ==
  "PROCESSO NUP 64136.001234/2025-11" :> {"PROCESSO NUP"} @@
  "TERMO DE ABERTURA" :> {"TERMO DE ABERTURA"} @@
  "DESPACHO Nº 12" :> {"re_DESPACHO_N"} @@
  "APROVO A DESPESA" :> {"APROVO"} @@
  "ENCAMINHO AO OD" :> {"ENCAMINHO"} @@
  "CHECK LIST DE CONTRATO" :> {"CHECK LIST", "CONTRATO", "CONTRAT"} @@
  "AO SR ORDENADOR DE DESPESAS" :> {"ORDENADOR DE DESPESAS", "AO SR", "ORDENADOR"} @@
  "TIPO DE EMPENHO: GLOBAL" :> {"TIPO DE EMPENHO"} @@
  "NOTA DE CRÉDITO 2025NC000123 DATA EMISSÃO 10/01/2025" :> {"NOTA DE CRÉDITO", "re_NC"} @@
  "EMPH ATÉ 30 DIAS." :> {} @@
  "EMPH ATÉ 9999999 DIAS." :> {} @@
  "DADOS DO FORNECEDOR - SITUAÇÃO DO FORNECEDOR: CREDENCIADO" :> {"DADOS DO FORNECEDOR", "SITUAÇÃO DO FORNECEDOR"} @@
  "CADIN - CONSULTA CONTRATANTE" :> {"CADIN", "CONSULTA CONTRATANTE", "CONTRATANTE", "CONTRAT"} @@
  "CONSULTA CONSOLIDADA DE PESSOA JURÍDICA - RESULTADO" :> {"CONSULTA CONSOLIDADA DE PESSOA", "RESULTADO"} @@
  "TERMO DE CONTRATO Nº 59/2024" :> {"CONTRATO", "TERMO DE CONTRATO", "CONTRAT"} @@
  "ITEM DESCRICAO UND QTD P. UNT P. TOTAL 1 CANETA UN 10,000 R$ 5,00 R$ 50,00" :> {"P. UNT", "TOTAL", "ND "} @@
  "ESTE DOCUMENTO É PEÇA DO PROCESSO 64136.001234/2025-11 PÁG 1 DE 9" :> {} @@
  "DOCUMENTO WEB : 2025NC000123 DATA EMISSAO : 10JAN25" :> {"DOCUMENTO WEB", "re_NC"} @@
  "DOCUMENTO WEB : 2025NC000123" :> {"DOCUMENTO WEB", "re_NC"} @@
  "EMPENHO ATÉ 30JUN25" :> {} @@
  "EMPENHO ATÉ 30 DIAS" :> {} @@
  "PRAZO DE EMPENHO 30 DIAS." :> {}

\* the texts a page can have: at most MaxTrechos lines of the vocabulary
Textos == { t \in SUBSET TRECHOS : Cardinality(t) <= MaxTrechos }

\* texto.upper()
Upper(texto) == { MAIUSCULAS[l] : l \in texto }

\* "palavra in texto_upper" / re.search(padrao, texto_upper)
Contem(texto_upper, palavra) == \E l \in texto_upper : palavra \in PALAVRAS[l]

RECURSIVE SomaTamanhos(_)
SomaTamanhos(texto) ==
  IF texto = {} THEN 0
  ELSE LET l == CHOOSE x \in texto : TRUE
       IN TAMANHO[l] + SomaTamanhos(texto \ {l})

\* len(texto): the lines joined by one newline each
Len_(texto) ==
  IF texto = {} THEN 0 ELSE SomaTamanhos(texto) + (Cardinality(texto) - 1)

\* _RODAPE_DIGITAL.match(texto): the whole text is the digital footer
ApenasRodape(texto) == texto = {RODAPE}

\* the usable-text test of _extrair_paginas
TemTexto(texto) == Len_(texto) > MIN_TEXTO_UTIL /\ ~ApenasRodape(texto)

(* ---------------------------------------------------------------------- *)
(* Page acquisition: _extrair_paginas                                      *)
(* ---------------------------------------------------------------------- *)

\* what _ocr_pagina can return for a page: "" (render or Tesseract failed),
\* a text not longer than MIN_TEXTO_UTIL, a usable text
ResultadosOCR ==
  { {},
    {"Termo de Abertura"},
    {"NOTA DE CRÉDITO 2025NC000123 DATA EMISSÃO 10/01/2025"} }

\* the dict appended for page i (0-based) whose extract_text() gave texto
PaginaNativa(i, texto) ==
  [ numero     |-> i + 1,
    texto      |-> texto,
    tem_texto  |-> TemTexto(texto),
    requer_ocr |-> ~TemTexto(texto),
    fonte      |-> "pdfplumber" ]

\* a variant of the OCR loop body that blanks the page and marks it as "ocr"
\* when the OCR text is not adopted
AplicarOCREsvaziando(pag, texto_ocr) ==
  IF texto_ocr # {} /\ Len_(texto_ocr) > MIN_TEXTO_UTIL
  THEN [pag EXCEPT !.texto = texto_ocr, !.tem_texto = TRUE, !.fonte = "ocr"]
  ELSE [pag EXCEPT !.texto = {}, !.fonte = "ocr"]

\* the OCR loop body: the OCR text is adopted only when longer than the minimum
AplicarOCR(pag, texto_ocr) ==
  IF texto_ocr # {} /\ Len_(texto_ocr) > MIN_TEXTO_UTIL
  THEN [pag EXCEPT !.texto = texto_ocr, !.tem_texto = TRUE, !.fonte = "ocr"]
  ELSE pag

\* the list built by the native loop: every page of the PDF, or the pages
\* read before the one whose extract_text() raised (falha, 1-based; 0 = none)
PaginasNativas(doc) ==
  IF ~doc.abre THEN << >>
  ELSE LET n == IF doc.falha = 0 THEN Len(doc.paginas) ELSE doc.falha - 1
       IN [ i \in 1..n |-> PaginaNativa(i - 1, doc.paginas[i]) ]

\* the exception handler returns before the OCR loop
HouveExcecao(doc) == ~doc.abre \/ doc.falha # 0

\* the metadata counters of extrair_processo
PaginasComTexto(pags) ==
  Cardinality({ i \in DOMAIN pags : pags[i].fonte = "ocr" \/ pags[i].tem_texto })

PaginasOCR(pags) ==
  Cardinality({ i \in DOMAIN pags : pags[i].fonte = "ocr" \/ ~pags[i].tem_texto })

(* ---------------------------------------------------------------------- *)
(* Page classification: _classificar_paginas and its predicates            *)
(* ---------------------------------------------------------------------- *)

CATEGORIAS ==
  { "capa", "termo_abertura", "checklist", "requisicao", "nota_credito",
    "sicaf", "cadin", "consulta_consolidada", "despacho", "contrato",
    "edital", "nao_classificada" }

\* number of true entries of a list of indicators
Quantos(indicadores) ==
  Cardinality({ i \in DOMAIN indicadores : indicadores[i] })

EhCapa(t) ==
  \/ Contem(t, "PROCESSO NUP")
  \/ Contem(t, "PROTOCOLO GERAL")
  \/ Contem(t, "PEÇAS PROCESSUAIS")
  \/ (Contem(t, "CHECK LIST") /\ Contem(t, "PEÇAS"))

EhTermoAbertura(t) ==
  Contem(t, "TERMO DE ABERTURA") \/ Contem(t, "AUTUO O PRESENTE PROCESSO")

EhRequisicao(t) ==
  Quantos(<< Contem(t, "re_REQ_N"),
             Contem(t, "ORDENADOR DE DESPESAS"),
             Contem(t, "TIPO DE EMPENHO"),
             Contem(t, "AO SR") /\ Contem(t, "ORDENADOR"),
             Contem(t, "MATERIAL") /\ Contem(t, "ADQUIRIDO"),
             (Contem(t, "P. UNT") \/ Contem(t, "P.UNT")) /\ Contem(t, "TOTAL"),
             Contem(t, "FISC ADM") /\ Contem(t, "REQUISI") >>) >= 2

EhNotaCredito(t) ==
  \/ Contem(t, "NOTA DE CRÉDITO") \/ Contem(t, "NOTA DE CREDITO")
  \/ Contem(t, "UG EMITENTE")
  \/ Contem(t, "SISTEMA ORIGEM SIAFI")
  \/ Contem(t, "DEMONSTRA-DIARIO")
  \/ Contem(t, "DEMONSTRA-CONRAZAO")
  \/ Contem(t, "re_NC")

EhContrato(t) ==
  \/ Contem(t, "TERMO DE CONTRATO")
  \/ (Contem(t, "CONTRATANTE") /\ Contem(t, "CONTRATADA"))
  \/ Quantos(<< Contem(t, "re_CLAUSULA"),
                Contem(t, "CONTRATADA") \/ Contem(t, "CONTRATANTE"),
                Contem(t, "EXECU") /\ Contem(t, "CONTRAT"),
                Contem(t, "RESCIS") /\ Contem(t, "CONTRAT"),
                Contem(t, "VIG") /\ Contem(t, "CONTRAT"),
                Contem(t, "GARANTIA DE EXECU") >>) >= 2

EhSicaf(t) ==
  \/ (Contem(t, "DADOS DO FORNECEDOR") /\ Contem(t, "SITUAÇÃO DO FORNECEDOR"))
  \/ (Contem(t, "CADASTRAMENTO UNIFICADO DE FORNECEDORES")
        /\ Contem(t, "DADOS DO FORNECEDOR"))

EhCadin(t) ==
  /\ Contem(t, "CADIN")
  /\ \/ Contem(t, "CRÉDITOS NÃO QUITADOS")
     \/ Contem(t, "CREDITOS NAO QUITADOS")
     \/ Contem(t, "CONSULTA CONTRATANTE")

EhConsultaConsolidada(t) ==
  Contem(t, "CONSULTA CONSOLIDADA DE PESSOA") /\ Contem(t, "RESULTADO")

TemMarcadorDespacho(t) == Contem(t, "re_DESPACHO_N")

\* the two exclusive dispatch tests
EhDespachoAprovo(t) == TemMarcadorDespacho(t) /\ Contem(t, "APROVO")
EhDespachoEncaminho(t) == TemMarcadorDespacho(t) /\ Contem(t, "ENCAMINHO")

\* the checklist test (line 473)
EhChecklist(t) == Contem(t, "CHECK LIST") /\ Contem(t, "CONTRATO")

\* mutation: the requisition test ignores the flag set by the checklist test
RequisicaoSemFlag(t) == EhRequisicao(t)

\* eh_req (line 479): classificada can only have been set by the checklist test
MarcadaRequisicao(t) == ~EhChecklist(t) /\ EhRequisicao(t)

\* mutation: the credit-note test is not suppressed on requisition pages
NotaCreditoSemSupressao(t) == EhNotaCredito(t)

\* the credit-note test (line 486)
MarcadaNotaCredito(t) == ~MarcadaRequisicao(t) /\ EhNotaCredito(t)

\* the flag classificada when the generic dispatch test is reached
ClassificadaAntesDoDespacho(t) ==
  \/ EhChecklist(t) \/ MarcadaRequisicao(t) \/ MarcadaNotaCredito(t)
  \/ EhSicaf(t) \/ EhCadin(t) \/ EhConsultaConsolidada(t)

\* mutation: the generic dispatch test looks at the marker alone
DespachoGenericoSemFlag(t) == TemMarcadorDespacho(t)

\* the generic dispatch test (line 508)
DespachoGenerico(t) == ~ClassificadaAntesDoDespacho(t) /\ TemMarcadorDespacho(t)

\* the part of the loop body after the four exclusive tests: the categories
\* the page is appended to
NaoExclusivas(t) ==
  (IF EhChecklist(t) THEN {"checklist"} ELSE {})
    \cup (IF MarcadaRequisicao(t) THEN {"requisicao"} ELSE {})
    \cup (IF MarcadaNotaCredito(t) THEN {"nota_credito"} ELSE {})
    \cup (IF EhSicaf(t) THEN {"sicaf"} ELSE {})
    \cup (IF EhCadin(t) THEN {"cadin"} ELSE {})
    \cup (IF EhConsultaConsolidada(t) THEN {"consulta_consolidada"} ELSE {})
    \cup (IF DespachoGenerico(t) THEN {"despacho"} ELSE {})
    \cup (IF EhContrato(t) THEN {"contrato"} ELSE {})

\* mutation: the cover test does not end the loop iteration
CategoriasSemContinue(pag) ==
  LET t == Upper(pag.texto)
  IN  IF EhCapa(t) THEN {"capa"} \cup NaoExclusivas(t)
      ELSE IF EhTermoAbertura(t) THEN {"termo_abertura"}
      ELSE IF EhDespachoAprovo(t) THEN {"despacho"}
      ELSE IF EhDespachoEncaminho(t) THEN {"despacho"}
      ELSE IF NaoExclusivas(t) = {} THEN {"nao_classificada"}
      ELSE NaoExclusivas(t)

\* the categories one page is appended to (the body of the loop)
CategoriasDaPagina(pag) ==
  LET t == Upper(pag.texto)
  IN  IF EhCapa(t) THEN {"capa"}
      ELSE IF EhTermoAbertura(t) THEN {"termo_abertura"}
      ELSE IF EhDespachoAprovo(t) THEN {"despacho"}
      ELSE IF EhDespachoEncaminho(t) THEN {"despacho"}
      ELSE IF NaoExclusivas(t) = {} THEN {"nao_classificada"}
      ELSE NaoExclusivas(t)

\* _classificar_paginas: each list holds, in page order, the (numbers of the)
\* pages appended to it
ClassificarPaginas(pags) ==
  [ c \in CATEGORIAS |->
      LET idx == SelectSeq([ i \in 1..Len(pags) |-> i ],
                           LAMBDA i : c \in CategoriasDaPagina(pags[i]))
      IN  [ k \in 1..Len(idx) |-> pags[idx[k]].numero ] ]

(* ---------------------------------------------------------------------- *)
(* Section parsers, restricted to what the vocabulary lines carry          *)
(* ---------------------------------------------------------------------- *)

\* optional integer (None or an int)
Nenhum == [tem |-> FALSE, v |-> 0]
Algum(v) == [tem |-> TRUE, v |-> v]

\* _juntar_texto_paginas: the lines of the pages of one category
JuntarTextoPaginas(pags, numeros) ==
  UNION { pags[i].texto : i \in { j \in DOMAIN pags :
              \E k \in DOMAIN numeros : numeros[k] = pags[j].numero } }

\* the value captured by a field pattern: the table gives, for the lines the
\* pattern matches, the captured group; no two lines of the vocabulary match
\* the same field pattern except the deadline lines
Campo(tabela, texto) ==
  IF \E l \in texto : l \in DOMAIN tabela
  THEN tabela[CHOOSE l \in texto : l \in DOMAIN tabela]
  ELSE NULL

\* _extrair_capa: r"(\d{5}\.\d{6}/\d{4}-\d{2})"
NUP_CAPA ==
  "PROCESSO NUP 64136.001234/2025-11" :> "64136.001234/2025-11" @@
  RODAPE :> "64136.001234/2025-11"

\* _extrair_requisicao: the group captured (ignoring case) by
\* r"Tipo\s+de\s+Empenho\s*:?\s*(Ordin[áa]rio|Global|Estimativo)"
TIPO_EMPENHO_DECLARADO ==
  "TIPO DE EMPENHO: Global" :> "Global" @@
  "Tipo de Empenho: GLOBAL" :> "GLOBAL" @@
  "Tipo de Empenho: estimativo" :> "estimativo" @@
  "Tipo de Empenho: Ordinário" :> "Ordinário" @@
  "Tipo de Empenho: ORDINÁRIO" :> "ORDINÁRIO" @@
  "Tipo de Empenho: Ordinario" :> "Ordinario"

\* str.capitalize() of the captured groups
CAPITALIZE ==
  "Global" :> "Global" @@ "GLOBAL" :> "Global" @@
  "estimativo" :> "Estimativo" @@ "Ordinário" :> "Ordinário" @@
  "ORDINÁRIO" :> "Ordinário" @@ "Ordinario" :> "Ordinario"

\* _extrair_requisicao: the literal assigned when no declaration is found and
\* a marked option r"\(\s*[xX]\s*\)\s*Ordin[áa]rio" (Global, Estimativo) is
TIPO_EMPENHO_MARCADO ==
  "( X ) Ordinario" :> "Ordinário" @@
  "(x) Global" :> "Global" @@
  "(X) Estimativo" :> "Estimativo"

\* dados["tipo_empenho"] for the lines that give one
TIPO_EMPENHO ==
  [ l \in DOMAIN TIPO_EMPENHO_DECLARADO |-> CAPITALIZE[TIPO_EMPENHO_DECLARADO[l]] ]
    @@ TIPO_EMPENHO_MARCADO

\* _extrair_requisicao / _extrair_nc_padrao: r"(20\d{2}NC\d{6})"
NUMERO_NC ==
  "NOTA DE CRÉDITO 2025NC000123 DATA EMISSÃO 10/01/2025" :> "2025NC000123" @@
  "DOCUMENTO WEB : 2025NC000123 DATA EMISSAO : 10Jan25" :> "2025NC000123" @@
  "DOCUMENTO WEB : 2025NC000123" :> "2025NC000123"

\* _extrair_requisicao: r"contrato\s*(?:n[ºo°]\s*)?(\d{1,3}/\d{4})"
NR_CONTRATO == "TERMO DE CONTRATO Nº 59/2024" :> "59/2024"

\* f"Contrato {nr_contrato}"
INSTRUMENTO_CONTRATO == "59/2024" :> "Contrato 59/2024"

\* f"PE {nr_pregao}"
INSTRUMENTO_PREGAO == "90004/2025" :> "PE 90004/2025"

\* _extrair_nc_padrao: r"DATA\s+EMISS[ÃA]O\s+(\S+)"
DATA_EMISSAO ==
  "NOTA DE CRÉDITO 2025NC000123 DATA EMISSÃO 10/01/2025" :> "10/01/2025"

\* _extrair_nc_demonstra_diario: r"DATA\s+EMISSAO?\s*:\s*(\S+)"
DATA_EMISSAO_DD ==
  "DOCUMENTO WEB : 2025NC000123 DATA EMISSAO : 10Jan25" :> "10Jan25"

\* both parsers: r"EMPH\s+AT[ÉE]\s+(.+?)[\.\n\r]"
PRAZO_EMPENHO ==
  "EMPH ATÉ 30 DIAS." :> "30 DIAS" @@
  "EMPH ATÉ 9999999 DIAS." :> "9999999 DIAS"

\* both parsers: r"EMPENHO\s+AT[ÉE]\s+(\S+)" captures one token
PRAZO_EMPENHO_ATE ==
  "EMPENHO ATÉ 30JUN25" :> "30JUN25" @@
  "EMPENHO ATÉ 30 DIAS" :> "30"

\* _extrair_nc_padrao: r"[Pp]razo\s+de\s+empenho\s+(.+?)[\.\n\r]"; the pattern
\* of _extrair_nc_demonstra_diario for this label wants a date and matches
\* no line of the vocabulary
PRAZO_DE_EMPENHO ==
  "Prazo de empenho 30 DIAS." :> "30 DIAS"

MESES_PT ==
  "JAN" :> 1 @@ "FEV" :> 2 @@ "MAR" :> 3 @@ "ABR" :> 4 @@ "MAI" :> 5 @@
  "JUN" :> 6 @@ "JUL" :> 7 @@ "AGO" :> 8 @@ "SET" :> 9 @@ "OUT" :> 10 @@
  "NOV" :> 11 @@ "DEZ" :> 12

MESES_EXTENSO ==
  "janeiro" :> 1 @@ "fevereiro" :> 2 @@ "março" :> 3 @@ "abril" :> 4 @@
  "maio" :> 5 @@ "junho" :> 6 @@ "julho" :> 7 @@ "agosto" :> 8 @@
  "setembro" :> 9 @@ "outubro" :> 10 @@ "novembro" :> 11 @@ "dezembro" :> 12

\* what the seven patterns of parse_data_flexivel, in the order of the code,
\* capture at the start of a token (re.match): << >> for a pattern that
\* does not match, else day, month and year; the month of a lettered
\* pattern is the group after .upper() or .lower(). The patterns are
\* DD/MM/YYYY, DD/MMM/YYYY, DD de <month> de YYYY, DD MMM YY, DDMmmYY,
\* DDMMMYYYY, DD/MM/YY. A string that is not a key matches no pattern.
CAPTURAS_DATA ==
  "12/01/2026" :> << <<12, 1, 2026>>, << >>, << >>, << >>, << >>, << >>, <<12, 1, 20>> >> @@
  "10/01/2025" :> << <<10, 1, 2025>>, << >>, << >>, << >>, << >>, << >>, <<10, 1, 20>> >> @@
  "29/02/2025" :> << <<29, 2, 2025>>, << >>, << >>, << >>, << >>, << >>, <<29, 2, 20>> >> @@
  "31/02/2026" :> << <<31, 2, 2026>>, << >>, << >>, << >>, << >>, << >>, <<31, 2, 20>> >> @@
  "12/01/26" :> << << >>, << >>, << >>, << >>, << >>, << >>, <<12, 1, 26>> >> @@
  "11/JAN/2026" :> << << >>, <<11, "JAN", 2026>>, << >>, << >>, << >>, << >>, << >> >> @@
  "11/ABC/2026" :> << << >>, <<11, "ABC", 2026>>, << >>, << >>, << >>, << >>, << >> >> @@
  "05 de fevereiro de 2026" :>
     << << >>, << >>, <<5, "fevereiro", 2026>>, << >>, << >>, << >>, << >> >> @@
  "27 JAN 26" :> << << >>, << >>, << >>, <<27, "JAN", 26>>, << >>, << >>, << >> >> @@
  "27Jan26" :> << << >>, << >>, << >>, << >>, <<27, "JAN", 26>>, << >>, << >> >> @@
  "10Jan25" :> << << >>, << >>, << >>, << >>, <<10, "JAN", 25>>, << >>, << >> >> @@
  "30JUN25" :> << << >>, << >>, << >>, << >>, <<30, "JUN", 25>>, << >>, << >> >> @@
  "30JUN2025" :>
     << << >>, << >>, << >>, << >>, <<30, "JUN", 20>>, <<30, "JUN", 2025>>, << >> >> @@
  "amanhã" :> << << >>, << >>, << >>, << >>, << >>, << >>, << >> >>

\* parse_data_flexivel as a calendar date <<year, month, day>>: the first
\* pattern that matches, knows its month and names a date that exists gives
\* the result (datetime raises ValueError for the others and the next
\* pattern is tried)
DataFlexivel(texto) ==
  IF texto \notin DOMAIN CAPTURAS_DATA THEN Nenhum
  ELSE
    LET c == CAPTURAS_DATA[texto]
        mes(i) == IF i \in {1, 7} THEN c[i][2]
                  ELSE IF i = 3
                       THEN (IF c[i][2] \in DOMAIN MESES_EXTENSO
                             THEN MESES_EXTENSO[c[i][2]] ELSE 0)
                       ELSE (IF c[i][2] \in DOMAIN MESES_PT
                             THEN MESES_PT[c[i][2]] ELSE 0)
        ano(i) == IF i \in {4, 5, 7} THEN 2000 + c[i][3] ELSE c[i][3]
        bissexto(a) == a % 4 = 0 /\ (a % 100 # 0 \/ a % 400 = 0)
        dias_no_mes(a, m) == IF m = 2 THEN (IF bissexto(a) THEN 29 ELSE 28)
                             ELSE IF m \in {4, 6, 9, 11} THEN 30 ELSE 31
        existe(i) == /\ Len(c[i]) = 3
                     /\ mes(i) \in 1..12
                     /\ c[i][1] \in 1..dias_no_mes(ano(i), mes(i))
        boas == { i \in 1..7 : existe(i) }
        p == CHOOSE i \in boas : \A k \in boas : i <= k
    IN  IF boas = {} THEN Nenhum ELSE Algum(<<ano(p), mes(p), c[p][1]>>)

\* date.toordinal(): the proleptic Gregorian ordinal of <<year, month, day>>
ToOrdinal(data) ==
  LET a == data[1] - 1
      bissexto == data[1] % 4 = 0 /\ (data[1] % 100 # 0 \/ data[1] % 400 = 0)
      antes == <<0, 31, 59, 90, 120, 151, 181, 212, 243, 273, 304, 334>>
  IN  365 * a + (a \div 4) - (a \div 100) + (a \div 400)
        + antes[data[2]] + (IF data[2] > 2 /\ bissexto THEN 1 ELSE 0) + data[3]

\* parse_data_flexivel on the date strings of the vocabulary, as the
\* proleptic Gregorian ordinal of the date; None for the other strings
DATA_ORDINAL ==
  [ t \in { x \in DOMAIN CAPTURAS_DATA : DataFlexivel(x).tem } |->
      ToOrdinal(DataFlexivel(t).v) ]

ParseDataFlexivel(texto) ==
  IF texto \in DOMAIN DATA_ORDINAL THEN Algum(DATA_ORDINAL[texto]) ELSE Nenhum

\* re.match(r"(\d+)\s*DIAS?", prazo): int(m.group(1))
DIAS_RELATIVOS == "30 DIAS" :> 30 @@ "9999999 DIAS" :> 9999999

\* dt_prazo.strftime("%d/%m/%Y") of the dates the model can produce
STRFTIME == 739291 :> "09/02/2025"

\* the fallback of _extrair_mascara_requisitante takes the line of the
\* credit-note number and up to 6 lines after it
JANELA == 6

\* datetime.max.toordinal(): a date beyond it raises OverflowError
MAX_ORDINAL == 3652059

\* the native table of a requisition page: the page with the item line
\* carries one table with that row (_processar_tabela_itens gives one item)
ItensDaPagina(pag) ==
  IF "ITEM DESCRICAO UND QTD P. UNT P. TOTAL 1 CANETA UN 10,000 R$ 5,00 R$ 50,00"
       \in pag.texto
  THEN << [item |-> 1, descricao |-> "CANETA"] >>
  ELSE << >>

RECURSIVE ItensViaTabelas(_, _)
\* _extrair_itens_via_tabelas: the PDF is opened again; a failure is caught
\* and the items collected so far are returned
ItensViaTabelas(doc, numeros) ==
  IF ~doc.abre \/ numeros = << >> THEN << >>
  ELSE LET n == Head(numeros)
       IN  (IF n <= Len(doc.paginas)
            THEN ItensDaPagina([texto |-> doc.paginas[n]])
            ELSE << >>)
           \o ItensViaTabelas(doc, Tail(numeros))

IdentVazia ==
  [ nup |-> NULL, tipo |-> NULL, tipo_empenho |-> NULL, fornecedor |-> NULL,
    cnpj |-> NULL, nc |-> NULL, nr_contrato |-> NULL, nr_pregao |-> NULL,
    instrumento |-> NULL, nd |-> NULL, ptres |-> NULL, fonte |-> NULL,
    ugr |-> NULL, pi |-> NULL ]

\* _extrair_requisicao: r"NUP:\s*(\d{5}\.\d{6}/\d{4}-\d{2})" needs the label
\* "NUP:", which no line of the vocabulary carries
NUP_REQUISICAO == [ l \in {} |-> NULL ]

\* _extrair_capa
ExtrairCapa(texto) == [IdentVazia EXCEPT !.nup = Campo(NUP_CAPA, texto)]

\* _extrair_requisicao (the fields the vocabulary can populate)
ExtrairRequisicao(texto) ==
  [ nup |-> Campo(NUP_REQUISICAO, texto),
    tipo_empenho |-> Campo(TIPO_EMPENHO, texto),
    fornecedor |-> NULL, cnpj |-> NULL,
    nc |-> Campo(NUMERO_NC, texto),
    nr_contrato |-> Campo(NR_CONTRATO, texto),
    nr_pregao |-> NULL,
    nd |-> NULL, ptres |-> NULL, fonte |-> NULL, ugr |-> NULL, pi |-> NULL ]

\* _mesclar_identificacao
MesclarIdentificacao(ident, dados_req) ==
  LET preencher(campo_id, valor) ==
        IF valor # NULL /\ ident[campo_id] = NULL THEN valor ELSE ident[campo_id]
      sobrepor(campo_id, valor) ==
        IF valor # NULL THEN valor ELSE ident[campo_id]
  IN [ nup          |-> preencher("nup", dados_req.nup),
       tipo_empenho |-> preencher("tipo_empenho", dados_req.tipo_empenho),
       fornecedor   |-> preencher("fornecedor", dados_req.fornecedor),
       cnpj         |-> preencher("cnpj", dados_req.cnpj),
       instrumento  |-> IF dados_req.nr_contrato # NULL
                        THEN INSTRUMENTO_CONTRATO[dados_req.nr_contrato]
                        ELSE IF dados_req.nr_pregao # NULL
                        THEN INSTRUMENTO_PREGAO[dados_req.nr_pregao]
                        ELSE ident.instrumento,
       tipo         |-> IF dados_req.nr_contrato # NULL THEN "Contrato"
                        ELSE IF dados_req.nr_pregao # NULL THEN "Licitação"
                        ELSE ident.tipo,
       nc           |-> sobrepor("nc", dados_req.nc),
       nd           |-> sobrepor("nd", dados_req.nd),
       pi           |-> sobrepor("pi", dados_req.pi),
       ptres        |-> sobrepor("ptres", dados_req.ptres),
       ugr          |-> sobrepor("ugr", dados_req.ugr),
       fonte        |-> sobrepor("fonte", dados_req.fonte),
       nr_pregao    |-> sobrepor("nr_pregao", dados_req.nr_pregao),
       nr_contrato  |-> sobrepor("nr_contrato", dados_req.nr_contrato) ]

(* ---------------------------------------------------------------------- *)
(* Credit notes: _extrair_nota_credito and _complementar_nc_com_req        *)
(* ---------------------------------------------------------------------- *)

NcVazia(numero, formato) ==
  [ numero |-> numero, formato |-> formato, data_emissao |-> NULL,
    prazo_empenho |-> NULL, dias_restantes |-> Nenhum,
    nd |-> NULL, ptres |-> NULL, fonte |-> NULL, ugr |-> NULL, pi |-> NULL,
    valor_total |-> Nenhum, saldo |-> Nenhum ]

\* the format test of _extrair_nota_credito
EhDemonstraDiario(t) ==
  \/ Contem(t, "DEMONSTRA-DIARIO") \/ Contem(t, "DEMONSTRA-CONRAZAO")
  \/ Contem(t, "DOCUMENTO WEB") \/ Contem(t, "UG/GESTAO EMITENTE")

\* the terminal-format parser is the one that yields the credit notes
FormatoDD(texto) ==
  EhDemonstraDiario(Upper(texto)) /\ Campo(NUMERO_NC, texto) # NULL

\* the deadline strings the deadline patterns can capture in texto: the
\* patterns are tried in the order of the parser that runs, the first that
\* matches gives its first match in reading order, and the order of the lines
\* is not part of the model, so each line matching that pattern is a possible
\* capture
PrazosPossiveis(texto) ==
  LET capturas(tabela) == { tabela[l] : l \in { x \in texto : x \in DOMAIN tabela } }
      primeira(camadas) ==
        IF \E i \in DOMAIN camadas : camadas[i] # {}
        THEN camadas[CHOOSE i \in DOMAIN camadas :
                       camadas[i] # {} /\ \A j \in 1..(i - 1) : camadas[j] = {}]
        ELSE { NULL }
  IN  IF FormatoDD(texto)
      THEN primeira(<<capturas(PRAZO_EMPENHO_ATE), capturas(PRAZO_EMPENHO)>>)
      ELSE primeira(<<capturas(PRAZO_DE_EMPENHO), capturas(PRAZO_EMPENHO_ATE),
                      capturas(PRAZO_EMPENHO)>>)

\* (dt.date() - hoje_cg()).days when the deadline parses as a date
DiasRestantes(prazo, dia_hoje) ==
  IF prazo # NULL /\ ParseDataFlexivel(prazo).tem
  THEN Algum(ParseDataFlexivel(prazo).v - dia_hoje)
  ELSE Nenhum

\* a variant of the deduplication key that leaves the nature of expense out
ChaveLancamentoSemNd(linha) ==
  <<linha.ptres, linha.fonte, linha.ugr, linha.pi, linha.esf, linha.valor>>

\* the deduplication key of _processar_linhas_evento_dd
ChaveLancamento(linha) ==
  <<linha.nd, linha.ptres, linha.fonte, linha.ugr, linha.pi, linha.esf,
    linha.valor>>

\* _processar_linhas_evento_dd on the event lines of the text, in order: an
\* event line whose data line is not found in the next 3 lines is skipped
\* (tem_dados false), and a posting whose key was already seen is dropped.
\* Values are in centavos.
RECURSIVE ProcessarLinhasEventoDD(_)
ProcessarLinhasEventoDD(lancamentos) ==
  IF lancamentos = << >> THEN << >>
  ELSE LET n == Len(lancamentos)
           antes == ProcessarLinhasEventoDD(SubSeq(lancamentos, 1, n - 1))
           ultima == lancamentos[n]
       IN  IF ~ultima.tem_dados
              \/ \E i \in DOMAIN antes :
                    ChaveLancamento(antes[i]) = ChaveLancamento(ultima)
           THEN antes
           ELSE Append(antes, ultima)

\* saldos_por_nd: the value of the first posting of each nature of expense
SaldosPorNd(linhas_evento) ==
  [ nd \in { linhas_evento[i].nd : i \in DOMAIN linhas_evento } |->
      linhas_evento[CHOOSE i \in DOMAIN linhas_evento :
                      /\ linhas_evento[i].nd = nd
                      /\ \A j \in 1..(i - 1) : linhas_evento[j].nd # nd].valor ]

RECURSIVE Soma(_)
\* sum(saldos_por_nd.values())
Soma(saldos) ==
  IF DOMAIN saldos = {} THEN 0
  ELSE LET nd == CHOOSE x \in DOMAIN saldos : TRUE
       IN  saldos[nd] + Soma([ y \in DOMAIN saldos \ {nd} |-> saldos[y] ])

\* _extrair_nc_demonstra_diario: one record for the first number found
ExtrairNcDemonstraDiario(texto, prazo, dia_hoje) ==
  IF Campo(NUMERO_NC, texto) = NULL THEN << >>
  ELSE << [ NcVazia(Campo(NUMERO_NC, texto), "demonstra_diario") EXCEPT
              !.data_emissao = Campo(DATA_EMISSAO_DD, texto),
              !.prazo_empenho = prazo,
              !.dias_restantes = DiasRestantes(prazo, dia_hoje) ] >>

\* _extrair_nc_padrao: one record per distinct number found in the text
ExtrairNcPadrao(texto, prazo, dia_hoje) ==
  IF Campo(NUMERO_NC, texto) = NULL THEN << >>
  ELSE << [ NcVazia(Campo(NUMERO_NC, texto), "padrao") EXCEPT
              !.data_emissao = Campo(DATA_EMISSAO, texto),
              !.prazo_empenho = prazo,
              !.dias_restantes = DiasRestantes(prazo, dia_hoje) ] >>

\* _extrair_nota_credito (the number-only fallback runs when the standard
\* parser yields nothing, that is when the text holds no number at all)
ExtrairNotaCredito(texto, prazo, dia_hoje) ==
  IF texto = {} THEN << >>
  ELSE IF EhDemonstraDiario(Upper(texto))
          /\ ExtrairNcDemonstraDiario(texto, prazo, dia_hoje) # << >>
       THEN ExtrairNcDemonstraDiario(texto, prazo, dia_hoje)
       ELSE ExtrairNcPadrao(texto, prazo, dia_hoje)

\* the relative deadline of _complementar_nc_com_req applies to nc
PrazoRelativo(nc) ==
  /\ ~nc.dias_restantes.tem
  /\ nc.prazo_empenho # NULL
  /\ nc.prazo_empenho \in DOMAIN DIAS_RELATIVOS
  /\ nc.data_emissao # NULL
  /\ ParseDataFlexivel(nc.data_emissao).tem

\* dt_emissao + timedelta(days=N) leaves the range of datetime
EstouraData(nc) ==
  /\ PrazoRelativo(nc)
  /\ ParseDataFlexivel(nc.data_emissao).v + DIAS_RELATIVOS[nc.prazo_empenho]
       > MAX_ORDINAL

\* a variant of the loop body that counts the N days from today
ComplementarNcContandoDeHoje(nc, ident, dia_hoje) ==
  LET falta(campo) == IF nc[campo] = NULL /\ ident[campo] # NULL
                      THEN ident[campo] ELSE nc[campo]
      dt_prazo == ParseDataFlexivel(nc.data_emissao).v
                    + DIAS_RELATIVOS[nc.prazo_empenho]
  IN [ nc EXCEPT
         !.nd = falta("nd"), !.ptres = falta("ptres"), !.fonte = falta("fonte"),
         !.ugr = falta("ugr"), !.pi = falta("pi"),
         !.prazo_empenho = IF PrazoRelativo(nc) THEN STRFTIME[dt_prazo] ELSE @,
         !.dias_restantes = IF PrazoRelativo(nc)
                            THEN Algum(DIAS_RELATIVOS[nc.prazo_empenho])
                            ELSE @,
         !.saldo = IF ~nc.saldo.tem /\ nc.valor_total.tem THEN nc.valor_total
                   ELSE @ ]

\* a variant of the loop body in which the requisition's codes prevail
ComplementarNcSobrepondo(nc, ident, dia_hoje) ==
  LET falta(campo) == IF ident[campo] # NULL THEN ident[campo] ELSE nc[campo]
      dt_prazo == ParseDataFlexivel(nc.data_emissao).v
                    + DIAS_RELATIVOS[nc.prazo_empenho]
  IN [ nc EXCEPT
         !.nd = falta("nd"), !.ptres = falta("ptres"), !.fonte = falta("fonte"),
         !.ugr = falta("ugr"), !.pi = falta("pi"),
         !.prazo_empenho = IF PrazoRelativo(nc) THEN STRFTIME[dt_prazo] ELSE @,
         !.dias_restantes = IF PrazoRelativo(nc) THEN Algum(dt_prazo - dia_hoje)
                            ELSE @,
         !.saldo = IF ~nc.saldo.tem /\ nc.valor_total.tem THEN nc.valor_total
                   ELSE @ ]

\* the loop body of _complementar_nc_com_req for an nc that does not overflow
ComplementarNc(nc, ident, dia_hoje) ==
  LET falta(campo) == IF nc[campo] = NULL /\ ident[campo] # NULL
                      THEN ident[campo] ELSE nc[campo]
      dt_prazo == ParseDataFlexivel(nc.data_emissao).v
                    + DIAS_RELATIVOS[nc.prazo_empenho]
  IN [ nc EXCEPT
         !.nd = falta("nd"), !.ptres = falta("ptres"), !.fonte = falta("fonte"),
         !.ugr = falta("ugr"), !.pi = falta("pi"),
         !.prazo_empenho = IF PrazoRelativo(nc) THEN STRFTIME[dt_prazo] ELSE @,
         !.dias_restantes = IF PrazoRelativo(nc) THEN Algum(dt_prazo - dia_hoje)
                            ELSE @,
         !.saldo = IF ~nc.saldo.tem /\ nc.valor_total.tem THEN nc.valor_total
                   ELSE @ ]

\* _complementar_nc_com_req raises on the first nc whose deadline overflows
ComplementarNcLevanta(ncs) == \E i \in DOMAIN ncs : EstouraData(ncs[i])

ComplementarNcComReq(ncs, ident, dia_hoje) ==
  [ i \in DOMAIN ncs |-> ComplementarNc(ncs[i], ident, dia_hoje) ]

\* the mirror test of _complementar_nc_com_ocr: an OCR page of the
\* unclassified or credit-note lists with at least 2 mirror indicators
EhEspelho(t) ==
  Quantos(<< Contem(t, "FONTE") /\ Contem(t, "RECURSO"),
             Contem(t, "NATUREZA DA DESPESA") \/ Contem(t, "ND "),
             Contem(t, "PLANO INTERNO") \/ Contem(t, "PI "),
             Contem(t, "UGR") >>) >= 2

(* ---------------------------------------------------------------------- *)
(* Certificates, contract, dispatches, process type                        *)
(* ---------------------------------------------------------------------- *)

\* _extrair_certidoes: no line of the vocabulary carries a CNPJ or a name
ExtrairCertidoes(classif) ==
  [ sicaf |-> [ extraido |-> classif["sicaf"] # << >>,
                cnpj |-> NULL, razao_social |-> NULL ],
    cadin |-> [ extraido |-> classif["cadin"] # << >> ],
    consulta_consolidada |->
             [ extraido |-> classif["consulta_consolidada"] # << >> ] ]

\* lines 299-308 of extrair_processo: the supplier fallback on the OCR of the
\* images embedded in the requisition pages
ComplementarFornecedorComOCR(ident, dados_forn_ocr, ocr_disponivel) ==
  IF (ident.fornecedor = NULL \/ ident.cnpj = NULL) /\ ocr_disponivel
  THEN [ ident EXCEPT
           !.fornecedor = IF dados_forn_ocr.fornecedor # NULL /\ @ = NULL
                          THEN dados_forn_ocr.fornecedor ELSE @,
           !.cnpj = IF dados_forn_ocr.cnpj # NULL /\ @ = NULL
                    THEN dados_forn_ocr.cnpj ELSE @ ]
  ELSE ident

\* a variant of the SICAF fallback that prefers the certificate's values
ComplementarFornecedorSobrepondo(ident, certidoes) ==
  IF ~certidoes.sicaf.extraido THEN ident
  ELSE [ ident EXCEPT
           !.cnpj = IF certidoes.sicaf.cnpj # NULL
                    THEN certidoes.sicaf.cnpj ELSE @,
           !.fornecedor = IF certidoes.sicaf.razao_social # NULL
                          THEN certidoes.sicaf.razao_social ELSE @ ]

\* _complementar_fornecedor_com_certidoes
ComplementarFornecedorComCertidoes(ident, certidoes) ==
  IF ~certidoes.sicaf.extraido THEN ident
  ELSE [ ident EXCEPT
           !.cnpj = IF @ = NULL /\ certidoes.sicaf.cnpj # NULL
                    THEN certidoes.sicaf.cnpj ELSE @,
           !.fornecedor = IF @ = NULL /\ certidoes.sicaf.razao_social # NULL
                          THEN certidoes.sicaf.razao_social ELSE @ ]

\* the fields of dados that each line of a contract page populates (a true
\* tem_assinaturas counts as populated; assinantes is excluded by the gate)
CAMPOS_CONTRATO ==
  "TERMO DE CONTRATO Nº 59/2024" :> {"nr_contrato_doc"} @@
  "UASG: 160136" :> {"uasg_contratante"} @@
  "valor total de R$ 1.000,00" :> {"valor_total"} @@
  "Assinado digitalmente por A. Assinado digitalmente por B." :> {"tem_assinaturas"} @@
  "Pregão Eletrônico nº 90004/2025" :> {"pregao_origem"} @@
  "prazo de vigência de 01/01/2025 a 31/12/2025" :> {"vigencia_inicio", "vigencia_fim"}

CAMPOS_CHAVE == {"nr_contrato_doc", "cnpj_contratada", "objeto", "vigencia_inicio"}

MIN_CAMPOS_CONTRATO == 3

CamposContrato(texto) ==
  UNION { CAMPOS_CONTRATO[l] : l \in { x \in texto : x \in DOMAIN CAMPOS_CONTRATO } }

\* a variant of the quality gate that discards only when both tests fail
ExtrairContratoPortaoFraco(texto) ==
  LET campos == CamposContrato(texto)
  IN  IF Cardinality(campos) < MIN_CAMPOS_CONTRATO
         /\ Cardinality(campos \cap CAMPOS_CHAVE) < 1
      THEN [tem |-> FALSE, campos |-> {}]
      ELSE [tem |-> TRUE, campos |-> campos]

\* _extrair_contrato with its quality gate
ExtrairContrato(texto) ==
  LET campos == CamposContrato(texto)
  IN  IF Cardinality(campos) < MIN_CAMPOS_CONTRATO
         \/ Cardinality(campos \cap CAMPOS_CHAVE) < 1
      THEN [tem |-> FALSE, campos |-> {}]
      ELSE [tem |-> TRUE, campos |-> campos]

\* the mechanical type of one dispatch page
TipoDespacho(t) ==
  IF Contem(t, "APROVO") /\ Contem(t, "ENCAMINHO") THEN "aprovacao_encaminhamento"
  ELSE IF Contem(t, "APROVO") THEN "aprovacao"
  ELSE IF Contem(t, "ENCAMINHO") THEN "encaminhamento"
  ELSE IF Contem(t, "RESTITU") THEN "restituicao"
  ELSE IF Contem(t, "INFORMO") THEN "informacao"
  ELSE IF Contem(t, "REPROVO") THEN "reprovacao"
  ELSE "outro"

\* sort key (d["numero"] or 0, d["pagina"])
ChaveDespacho(d) == <<IF d.numero.tem THEN d.numero.v ELSE 0, d.pagina>>

MenorOuIgual(a, b) == a[1] < b[1] \/ (a[1] = b[1] /\ a[2] <= b[2])

RECURSIVE Ordenar(_)
\* list.sort (stable) by ChaveDespacho
Ordenar(ds) ==
  IF ds = << >> THEN << >>
  ELSE LET m == CHOOSE i \in DOMAIN ds :
                  \A j \in DOMAIN ds :
                     /\ MenorOuIgual(ChaveDespacho(ds[i]), ChaveDespacho(ds[j]))
                     /\ (ChaveDespacho(ds[i]) = ChaveDespacho(ds[j]) => i <= j)
           resto == [ k \in 1..(Len(ds) - 1) |-> IF k < m THEN ds[k] ELSE ds[k + 1] ]
       IN  << ds[m] >> \o Ordenar(resto)

\* _extrair_despachos: the header pattern r"[Dd]espacho\s+N[ºo°\.]" is case
\* sensitive and matches no line of the vocabulary, so numero stays None
ExtrairDespachos(pags, numeros) ==
  Ordenar([ k \in DOMAIN numeros |->
              [ tipo   |-> TipoDespacho(Upper(pags[numeros[k]].texto)),
                numero |-> Nenhum,
                pagina |-> numeros[k] ] ])

\* (identificacao.get("tipo_empenho") or "").lower()
\* str.lower() of the values of tipo_empenho
MINUSCULAS ==
  "Global" :> "global" @@ "Estimativo" :> "estimativo" @@
  "Ordinário" :> "ordinário" @@ "Ordinario" :> "ordinario"

\* a variant that compares tipo_empenho as stored, without lower()
TipoEmpenhoSemLower(ident) ==
  IF ident.tipo_empenho = NULL THEN "" ELSE ident.tipo_empenho

TipoEmpenhoMinusculo(ident) ==
  IF ident.tipo_empenho = NULL THEN "" ELSE MINUSCULAS[ident.tipo_empenho]

\* mutation: a process with no evidence of its type defaults to an auction
InferirTipoComPadrao(ident, classif) ==
  IF ident.nr_contrato # NULL \/ classif["checklist"] # << >>
     \/ classif["contrato"] # << >>
     \/ (ident.nr_pregao = NULL
           /\ TipoEmpenhoMinusculo(ident) \in {"global", "estimativo"})
  THEN "Contrato"
  ELSE "Licitação"

\* _inferir_tipo_processo
InferirTipoProcesso(ident, classif) ==
  IF ident.nr_contrato # NULL THEN "Contrato"
  ELSE IF classif["checklist"] # << >> THEN "Contrato"
  ELSE IF classif["contrato"] # << >> THEN "Contrato"
  ELSE IF ident.nr_pregao # NULL THEN "Licitação"
  ELSE IF TipoEmpenhoMinusculo(ident) \in {"global", "estimativo"} THEN "Contrato"
  ELSE IF TipoEmpenhoMinusculo(ident) = "ordinário" THEN "Licitação"
  ELSE NULL

(* ---------------------------------------------------------------------- *)
(* extrair_processo as a sequence of steps                                 *)
(* ---------------------------------------------------------------------- *)

\* the PDF files given to extrair_processo: a file that cannot be opened, or
\* up to MaxPaginas pages holding up to MaxTrechos lines between them, with
\* optionally a page whose extract_text() raises.  The pages carry no raster
\* images and an item table is detected exactly on the pages holding the
\* item line.
RECURSIVE SequenciasDePaginas(_, _)
SequenciasDePaginas(n, linhas) ==
  IF n = 0 THEN { << >> }
  ELSE UNION { { <<t>> \o resto :
                   resto \in SequenciasDePaginas(n - 1, linhas - Cardinality(t)) } :
               t \in { x \in Textos : Cardinality(x) <= linhas } }

Documentos ==
  { [abre |-> FALSE, falha |-> 0, paginas |-> << >>] }
  \cup { [abre |-> TRUE, falha |-> f, paginas |-> ps] :
           f \in 0..MaxPaginas,
           ps \in UNION { SequenciasDePaginas(n, MaxTrechos) : n \in 0..MaxPaginas } }

DatasHoje == { 739271 }

CertidoesVazias ==
  [ sicaf |-> [extraido |-> FALSE, cnpj |-> NULL, razao_social |-> NULL],
    cadin |-> [extraido |-> FALSE],
    consulta_consolidada |-> [extraido |-> FALSE] ]

\* the result dictionary created at the top of extrair_processo
ResultadoInicial ==
  [ identificacao |-> IdentVazia,
    itens         |-> << >>,
    nota_credito  |-> << >>,
    certidoes     |-> CertidoesVazias,
    contrato      |-> [tem |-> FALSE, campos |-> {}],
    despachos     |-> << >>,
    metadata      |-> [total_paginas |-> 0, paginas_com_texto |-> 0,
                       paginas_ocr |-> 0] ]

\* the locals of a call that has not been made
SemOutraChamada ==
  [ pdf |-> [abre |-> FALSE, falha |-> 0, paginas |-> << >>],
    pc |-> "ausente",
    paginas |-> << >>,
    classificadas |-> [c \in CATEGORIAS |-> << >>],
    resultado |-> ResultadoInicial ]

InitExtracao ==
  /\ pdf \in { d \in Documentos : d.falha <= Len(d.paginas) }
  /\ OCR_DISPONIVEL \in BOOLEAN
  /\ hoje \in DatasHoje
  /\ pc = "extrair_paginas"
  /\ paginas = << >>
  /\ classificadas = [c \in CATEGORIAS |-> << >>]
  /\ resultado = ResultadoInicial

\* the lists _extrair_paginas can return for a document: the native loop,
\* then the OCR loop over the pages without usable text (skipped after an
\* exception and when the OCR libraries are missing)
PaginasPossiveis(doc, ocr_disponivel) ==
  LET nativas == PaginasNativas(doc)
      pendentes == { i \in DOMAIN nativas : ~nativas[i].tem_texto }
  IN  IF HouveExcecao(doc) \/ ~ocr_disponivel \/ pendentes = {}
      THEN { nativas }
      ELSE { [ i \in DOMAIN nativas |->
                 IF i \in pendentes THEN AplicarOCR(nativas[i], ocr[i])
                                    ELSE nativas[i] ] :
             ocr \in [pendentes -> ResultadosOCR] }

\* the metadata section filled at lines 249-262
Metadados(pags) ==
  [ total_paginas |-> Len(pags),
    paginas_com_texto |-> PaginasComTexto(pags),
    paginas_ocr |-> PaginasOCR(pags) ]

\* a variant of ExtrairPaginas that switches the module-level OCR flag off
\* when the PDF could not be read
ExtrairPaginasDesligandoOCR ==
  /\ pc = "extrair_paginas"
  /\ paginas' \in PaginasPossiveis(pdf, OCR_DISPONIVEL)
  /\ resultado' = [resultado EXCEPT !.metadata = Metadados(paginas')]
  /\ pc' = "classificar"
  /\ OCR_DISPONIVEL' = (OCR_DISPONIVEL /\ ~HouveExcecao(pdf))
  /\ UNCHANGED <<pdf, hoje, classificadas>>
  /\ UNCHANGED <<banco, outra, chamada>>

\* lines 248-262: _extrair_paginas and the metadata counters
ExtrairPaginas ==
  /\ pc = "extrair_paginas"
  /\ paginas' \in PaginasPossiveis(pdf, OCR_DISPONIVEL)
  /\ resultado' = [resultado EXCEPT !.metadata = Metadados(paginas')]
  /\ pc' = "classificar"
  /\ UNCHANGED <<pdf, OCR_DISPONIVEL, hoje, classificadas>>
  /\ UNCHANGED <<banco, outra, chamada>>

\* line 265
Classificar ==
  /\ pc = "classificar"
  /\ classificadas' = ClassificarPaginas(paginas)
  /\ pc' = "identificacao"
  /\ UNCHANGED <<pdf, OCR_DISPONIVEL, hoje, paginas, resultado>>
  /\ UNCHANGED <<banco, outra, chamada>>

\* lines 268-308: cover, requisition, merge, items
IdentificacaoEItens(res, doc, pags, classif) ==
  LET texto_capa == JuntarTextoPaginas(pags, classif["capa"])
      texto_req  == JuntarTextoPaginas(pags, classif["requisicao"])
      ident0 == IF texto_capa # {} THEN ExtrairCapa(texto_capa) ELSE IdentVazia
  IN  IF texto_req # {}
      THEN [res EXCEPT
              !.identificacao =
                  MesclarIdentificacao(ident0, ExtrairRequisicao(texto_req)),
              !.itens = ItensViaTabelas(doc, classif["requisicao"])]
      ELSE [res EXCEPT !.identificacao = ident0]

ExtrairIdentificacao ==
  /\ pc = "identificacao"
  /\ resultado' = IdentificacaoEItens(resultado, pdf, paginas, classificadas)
  /\ pc' = "nota_credito"
  /\ UNCHANGED <<pdf, OCR_DISPONIVEL, hoje, paginas, classificadas>>
  /\ UNCHANGED <<banco, outra, chamada>>

\* the credit notes parsed at lines 311-315, for one possible deadline capture
NotasExtraidas(pags, classif, prazo, dia_hoje) ==
  IF classif["nota_credito"] # << >>
  THEN ExtrairNotaCredito(
         JuntarTextoPaginas(pags, classif["nota_credito"]), prazo, dia_hoje)
  ELSE << >>

PrazosDasNotas(pags, classif) ==
  PrazosPossiveis(JuntarTextoPaginas(pags, classif["nota_credito"]))

\* lines 311-324 when _complementar_nc_com_req returns
ExtrairNotas ==
  /\ pc = "nota_credito"
  /\ \E prazo \in PrazosDasNotas(paginas, classificadas) :
       LET notas == NotasExtraidas(paginas, classificadas, prazo, hoje)
       IN  /\ ~ComplementarNcLevanta(notas)
           /\ resultado' = [resultado EXCEPT
                  !.nota_credito =
                      ComplementarNcComReq(notas, resultado.identificacao, hoje)]
  /\ pc' = "certidoes"
  /\ UNCHANGED <<pdf, OCR_DISPONIVEL, hoje, paginas, classificadas>>
  /\ UNCHANGED <<banco, outra, chamada>>

\* lines 311-318 when _complementar_nc_com_req raises OverflowError: nothing
\* catches it and extrair_processo does not return
ExtrairNotasLevanta ==
  /\ pc = "nota_credito"
  /\ \E prazo \in PrazosDasNotas(paginas, classificadas) :
       ComplementarNcLevanta(NotasExtraidas(paginas, classificadas, prazo, hoje))
  /\ pc' = "levantou"
  /\ UNCHANGED <<pdf, OCR_DISPONIVEL, hoje, paginas, classificadas, resultado>>
  /\ UNCHANGED <<banco, outra, chamada>>

\* lines 327-358: certificates, supplier fallback, contract, dispatches, type
ResultadoFinal(res, pags, classif) ==
  LET certidoes == ExtrairCertidoes(classif)
      ident == ComplementarFornecedorComCertidoes(res.identificacao, certidoes)
      contrato == IF classif["contrato"] # << >>
                  THEN ExtrairContrato(
                         JuntarTextoPaginas(pags, classif["contrato"]))
                  ELSE [tem |-> FALSE, campos |-> {}]
  IN  [res EXCEPT
         !.certidoes = certidoes,
         !.contrato = contrato,
         !.despachos = ExtrairDespachos(pags, classif["despacho"]),
         !.identificacao =
             [ident EXCEPT !.tipo = IF @ = NULL
                                    THEN InferirTipoProcesso(ident, classif)
                                    ELSE @]]

Finalizar ==
  /\ pc = "certidoes"
  /\ resultado' = ResultadoFinal(resultado, paginas, classificadas)
  /\ pc' = "retornou"
  /\ UNCHANGED <<pdf, OCR_DISPONIVEL, hoje, paginas, classificadas>>
  /\ UNCHANGED <<banco, outra, chamada>>

(* ---------------------------------------------------------------------- *)
(* Auction and contract registries (modules/database.py), as driven by     *)
(* _registrar_pregao_automatico and _registrar_contrato_automatico          *)
(* ---------------------------------------------------------------------- *)

\* A document number "NNN/YYYY" is the list of its parts around "/", each
\* part the list of its digits, so that padding and prefixing are computed.
ANO == <<2, 0, 2, 5>>

RECURSIVE Zfill(_, _)
\* str.zfill
Zfill(digitos, n) ==
  IF Len(digitos) >= n THEN digitos ELSE Zfill(<<0>> \o digitos, n)

\* a variant that prefixes "90" without padding the short number
CorrigirNumeroPregaoSemZfill(numero) ==
  IF Len(numero) # 2 THEN numero
  ELSE LET nr == numero[1]
           ano == numero[2]
       IN  IF Len(nr) = 5 THEN <<nr, ano>>
           ELSE IF Len(nr) = 4 /\ Head(nr) = 9 THEN << <<9, 0>> \o Tail(nr), ano >>
           ELSE IF Len(nr) <= 3 THEN << <<9, 0>> \o nr, ano >>
           ELSE numero

\* _corrigir_numero_pregao
CorrigirNumeroPregao(numero) ==
  IF Len(numero) # 2 THEN numero
  ELSE LET nr == numero[1]
           ano == numero[2]
       IN  IF Len(nr) = 5 THEN <<nr, ano>>
           ELSE IF Len(nr) = 4 /\ Head(nr) = 9 THEN << <<9, 0>> \o Tail(nr), ano >>
           ELSE IF Len(nr) <= 3 THEN << <<9, 0>> \o Zfill(nr, 3), ano >>
           ELSE numero

\* _normalizar_numero_contrato
NormalizarNumeroContrato(numero) ==
  IF Len(numero) # 2 THEN numero
  ELSE << Zfill(numero[1], 3), numero[2] >>

\* the numbers the requisition patterns capture:
\* (\d{3,5}/\d{4}) for auctions, (\d{1,3}/\d{4}) for contracts
NumerosPregaoBrutos ==
  { << <<0, 0, 4>>, ANO >>, << <<9, 0, 0, 0, 4>>, ANO >>, << <<0, 0, 1, 4>>, ANO >> }

NumerosContratoBrutos ==
  { << <<5, 9>>, ANO >>, << <<0, 5, 9>>, ANO >>, << <<7>>, ANO >> }

NUPS == { NULL, "64136.001234/2025-11", "64136.005678/2025-22" }

\* a Python value is falsy
Vazio(v) == v = NULL \/ v = ""

\* desc.strip().upper()
DESC_NORM == "CANETA" :> "CANETA" @@ " caneta" :> "CANETA" @@ "" :> ""

SemFornecedor == [cnpj |-> NULL, razao_social |-> NULL]

FORNECEDORES ==
  { SemFornecedor,
    [cnpj |-> "11.111.111/0001-11", razao_social |-> "ALFA LTDA"],
    [cnpj |-> "22.222.222/0001-22", razao_social |-> "BETA LTDA"] }

LISTAS_ITENS ==
  { << >>,
    << [item |-> 1, descricao |-> "CANETA"], [item |-> 2, descricao |-> "CANETA"] >>,
    << [item |-> 1, descricao |-> " caneta"], [item |-> 2, descricao |-> ""] >> }

DETALHES_PREGAO ==
  { [uasg_gerenciadora |-> NULL, nome_om_gerenciadora |-> NULL, objeto |-> NULL],
    [uasg_gerenciadora |-> "160142", nome_om_gerenciadora |-> "9º B Sup",
     objeto |-> "Material de expediente"] }

\* what _registrar_pregao_automatico reads from an extraction result that
\* names an auction
ResultadosComPregao ==
  [ bruto : NumerosPregaoBrutos, nup : NUPS \ {NULL}, fornecedor : FORNECEDORES,
    itens : LISTAS_ITENS, detalhes : DETALHES_PREGAO ]

Imagem(seq) == { seq[i] : i \in DOMAIN seq }

\* index of the row SELECTed by number (0 = no row)
Existente(tabela, numero) ==
  IF \E i \in DOMAIN tabela : tabela[i].numero = numero
  THEN CHOOSE i \in DOMAIN tabela : tabela[i].numero = numero
  ELSE 0

RECURSIVE MesclarItens(_, _)
\* the item merge loop of registrar_pregao
MesclarItens(itens_atuais, itens) ==
  IF itens = << >> THEN itens_atuais
  ELSE LET item == Head(itens)
           desc_norm == DESC_NORM[item.descricao]
           descricoes_existentes ==
             { DESC_NORM[i.descricao] : i \in Imagem(itens_atuais) }
       IN  IF desc_norm # "" /\ desc_norm \notin descricoes_existentes
           THEN MesclarItens(Append(itens_atuais, item), Tail(itens))
           ELSE MesclarItens(itens_atuais, Tail(itens))

\* the supplier merge of registrar_pregao
MesclarFornecedor(fornecedores_atuais, fornecedor) ==
  IF ~Vazio(fornecedor.cnpj)
     /\ fornecedor.cnpj \notin { f.cnpj : f \in Imagem(fornecedores_atuais) }
  THEN Append(fornecedores_atuais, fornecedor)
  ELSE fornecedores_atuais

\* mutation: the NUP is appended without looking at the list
AcrescentarProcesso(processos, nup) ==
  IF ~Vazio(nup) THEN Append(processos, nup) ELSE processos

\* the linked-process merge of both registries
MesclarProcessos(processos, nup) ==
  IF ~Vazio(nup) /\ nup \notin Imagem(processos)
  THEN Append(processos, nup)
  ELSE processos

\* existente.get(campo) or novo; COALESCE(NULLIF(campo, ''), novo)
ManterOuPreencher(atual, novo) == IF Vazio(atual) THEN novo ELSE atual

\* the lookup key of registrar_pregao: the number as received
ChavePregao(numero) == numero

\* mutation: the contract is looked up by the number as received
ChaveContratoBruta(numero) == numero

\* the lookup key of registrar_contrato
ChaveContrato(numero) == NormalizarNumeroContrato(numero)

\* registrar_pregao: the table after the call
RegistrarPregao(tabela, agora, numero, detalhes, fornecedor, itens, nup) ==
  LET id == Existente(tabela, ChavePregao(numero))
  IN  IF id # 0
      THEN [ tabela EXCEPT ![id] =
               [ @ EXCEPT
                   !.uasg_gerenciadora =
                       ManterOuPreencher(@, detalhes.uasg_gerenciadora),
                   !.nome_om_gerenciadora =
                       ManterOuPreencher(@, detalhes.nome_om_gerenciadora),
                   !.objeto = ManterOuPreencher(@, detalhes.objeto),
                   !.fornecedores = MesclarFornecedor(@, fornecedor),
                   !.itens = MesclarItens(@, itens),
                   !.processos_vinculados = MesclarProcessos(@, nup),
                   !.ultimo_uso = agora ] ]
      ELSE Append(tabela,
             [ numero |-> ChavePregao(numero),
               uasg_gerenciadora |-> detalhes.uasg_gerenciadora,
               nome_om_gerenciadora |-> detalhes.nome_om_gerenciadora,
               objeto |-> detalhes.objeto,
               fornecedores |-> IF ~Vazio(fornecedor.cnpj) THEN <<fornecedor>>
                                ELSE << >>,
               itens |-> itens,
               processos_vinculados |-> IF ~Vazio(nup) THEN <<nup>> ELSE << >>,
               ultimo_uso |-> agora ])

CAMPOS_CONTRATO_BD ==
  { "uasg_contratante", "nome_contratante", "cnpj_contratante", "contratada",
    "cnpj_contratada", "objeto", "valor_total", "vigencia_inicio",
    "vigencia_fim", "pregao_origem" }

\* the contract data _registrar_contrato_automatico passes on
DADOS_CONTRATO ==
  { [ campos |-> [c \in CAMPOS_CONTRATO_BD |-> NULL], tem_assinaturas |-> FALSE ],
    [ campos |-> [c \in CAMPOS_CONTRATO_BD |-> "A"], tem_assinaturas |-> TRUE ],
    [ campos |-> [c \in CAMPOS_CONTRATO_BD |->
                    IF c = "objeto" THEN "" ELSE "B"],
      tem_assinaturas |-> FALSE ] }

ResultadosComContrato ==
  [ bruto : NumerosContratoBrutos, nup : NUPS, dados : DADOS_CONTRATO ]

Max(a, b) == IF a >= b THEN a ELSE b

\* registrar_contrato: the table after the call
RegistrarContrato(tabela, agora, numero, dados, nup) ==
  LET numero_norm == ChaveContrato(numero)
      id == Existente(tabela, numero_norm)
      assinado == IF dados.tem_assinaturas THEN 1 ELSE 0
  IN  IF id # 0
      THEN [ tabela EXCEPT ![id] =
               [ @ EXCEPT
                   !.campos = [ c \in CAMPOS_CONTRATO_BD |->
                                  ManterOuPreencher(@[c], dados.campos[c]) ],
                   !.tem_assinaturas = Max(@, assinado),
                   !.processos_vinculados = MesclarProcessos(@, nup),
                   !.ultimo_uso = agora ] ]
      ELSE Append(tabela,
             [ numero |-> numero_norm,
               campos |-> dados.campos,
               tem_assinaturas |-> assinado,
               processos_vinculados |-> IF ~Vazio(nup) THEN <<nup>> ELSE << >>,
               ultimo_uso |-> agora ])

SemChamada == [tipo |-> "nenhuma"]

\* the connections a registration may hold open at the same time
SLOTS == {1, 2}

\* no registration has opened a connection
SemSessoes ==
  [ iniciadas |-> 0, abertas |-> [s \in SLOTS |-> [pc |-> "ausente"]] ]

InitBanco ==
  /\ pregoes = << >>
  /\ contratos = << >>
  /\ relogio = 0
  /\ ultima_chamada = SemChamada
  /\ repetida = FALSE
  /\ sessoes = SemSessoes

\* app.py _registrar_pregao_automatico for a result naming an auction: the
\* number it reads was corrected by the requisition parser (extractor.py 1003)
RegistrarPregaoAutomatico ==
  /\ pc = "parado"
  /\ relogio < MaxRegistros
  /\ \E res \in ResultadosComPregao :
       /\ pregoes' = RegistrarPregao(pregoes, relogio + 1,
                                     CorrigirNumeroPregao(res.bruto), res.detalhes,
                                     res.fornecedor, res.itens, res.nup)
       /\ repetida' = (ultima_chamada = [tipo |-> "pregao", res |-> res])
       /\ ultima_chamada' = [tipo |-> "pregao", res |-> res]
  /\ relogio' = relogio + 1
  /\ UNCHANGED <<contratos, sessoes>>
  /\ UNCHANGED <<extracao, outra, chamada>>

\* app.py _registrar_contrato_automatico for a result naming a contract
RegistrarContratoAutomatico ==
  /\ pc = "parado"
  /\ relogio < MaxRegistros
  /\ \E res \in ResultadosComContrato :
       /\ contratos' = RegistrarContrato(contratos, relogio + 1, res.bruto,
                                         res.dados, res.nup)
       /\ repetida' = (ultima_chamada = [tipo |-> "contrato", res |-> res])
       /\ ultima_chamada' = [tipo |-> "contrato", res |-> res]
  /\ relogio' = relogio + 1
  /\ UNCHANGED <<pregoes, sessoes>>
  /\ UNCHANGED <<extracao, outra, chamada>>

Next ==
  \/ ExtrairPaginas
  \/ Classificar
  \/ ExtrairIdentificacao
  \/ ExtrairNotas
  \/ ExtrairNotasLevanta
  \/ Finalizar

\* one call of extrair_processo; the registries are left alone
\* no parsing function has been called directly
SemChamadaDireta == [funcao |-> "nenhuma", entrada |-> {}, saida |-> {}]

Init ==
  /\ InitExtracao
  /\ InitBanco
  /\ outra = SemOutraChamada
  /\ chamada = SemChamadaDireta

Spec == Init /\ [][Next]_vars

NextBanco ==
  \/ RegistrarPregaoAutomatico
  \/ RegistrarContratoAutomatico

\* a sequence of registrations; no extraction is running
InitRegistros ==
  /\ InitBanco
  /\ pdf = [abre |-> FALSE, falha |-> 0, paginas |-> << >>]
  /\ OCR_DISPONIVEL = FALSE
  /\ hoje \in DatasHoje
  /\ pc = "parado"
  /\ paginas = << >>
  /\ classificadas = [c \in CATEGORIAS |-> << >>]
  /\ resultado = ResultadoInicial
  /\ outra = SemOutraChamada
  /\ chamada = SemChamadaDireta

SpecBanco == InitRegistros /\ [][NextBanco]_vars

(* ---------------------------------------------------------------------- *)
(* Registrations on separate connections.  get_connection opens a new     *)
(* connection per call and neither function opens a transaction before    *)
(* its SELECT, so the SELECT of one call and the INSERT or UPDATE of      *)
(* another can interleave.  The write and its commit are one step: SQLite *)
(* lets one connection write at a time and the others read the committed  *)
(* rows until then.                                                       *)
(* ---------------------------------------------------------------------- *)

\* the registrations started in one behaviour
MaxSessoes == 3

\* the arguments app.py passes for a result that names an auction or a
\* contract; the remaining arguments are absent
RegistrosConcorrentes ==
  [ tabela : {"pregoes"},
    numero : { CorrigirNumeroPregao(b) : b \in NumerosPregaoBrutos },
    nup : NUPS \ {NULL} ]
  \cup
  [ tabela : {"contratos"}, numero : NumerosContratoBrutos, nup : NUPS \ {NULL} ]

\* the number the SELECT of a registration looks for
ChaveRegistro(reg) ==
  IF reg.tabela = "pregoes" THEN ChavePregao(reg.numero)
  ELSE ChaveContrato(reg.numero)

\* conn = get_connection(): a registration begins on a connection of its own
AbrirConexao(s) ==
  /\ pc = "parado"
  /\ sessoes.abertas[s].pc = "ausente"
  /\ sessoes.iniciadas < MaxSessoes
  /\ \E reg \in RegistrosConcorrentes :
       sessoes' = [ iniciadas |-> sessoes.iniciadas + 1,
                    abertas |-> [ sessoes.abertas EXCEPT
                                    ![s] = [pc |-> "select", reg |-> reg] ] ]
  /\ UNCHANGED <<pregoes, contratos, relogio, ultima_chamada, repetida>>
  /\ UNCHANGED <<extracao, outra, chamada>>

\* cursor.execute("SELECT * ... WHERE numero = ?"); existente = fetchone():
\* the call keeps the id and a copy of the row it saw (id 0: no row)
Selecionar(s) ==
  /\ sessoes.abertas[s].pc = "select"
  /\ LET reg == sessoes.abertas[s].reg
         tabela == IF reg.tabela = "pregoes" THEN pregoes ELSE contratos
         id == Existente(tabela, ChaveRegistro(reg))
     IN  sessoes' = [ sessoes EXCEPT
                        !.abertas[s] =
                          [ pc |-> "escrita", reg |-> reg, id |-> id,
                            existente |-> IF id = 0 THEN << >>
                                          ELSE <<tabela[id]>> ] ]
  /\ UNCHANGED <<pregoes, contratos, relogio, ultima_chamada, repetida>>
  /\ UNCHANGED <<extracao, outra, chamada>>

\* the row an UPDATE of registrar_pregao writes: every column comes from the
\* copy read by the SELECT
LinhaPregaoAtualizada(existente, agora, reg) ==
  RegistrarPregao(existente, agora, reg.numero,
                  [uasg_gerenciadora |-> NULL, nome_om_gerenciadora |-> NULL,
                   objeto |-> NULL],
                  SemFornecedor, << >>, reg.nup)[1]

\* the row an UPDATE of registrar_contrato writes: COALESCE and MAX read the
\* row as it is now, processos_vinculados comes from the copy read by the
\* SELECT
LinhaContratoAtualizada(atual, existente, agora, reg) ==
  LET dados == [ campos |-> [c \in CAMPOS_CONTRATO_BD |-> NULL],
                 tem_assinaturas |-> FALSE ]
  IN  [ RegistrarContrato(<<atual>>, agora, reg.numero, dados, reg.nup)[1]
          EXCEPT !.processos_vinculados =
                   MesclarProcessos(existente[1].processos_vinculados, reg.nup) ]

\* the INSERT or the UPDATE ... WHERE id = ?, with conn.commit(); an INSERT of
\* a number that is in the table by now violates UNIQUE and raises
\* sqlite3.IntegrityError
Escrever(s) ==
  /\ sessoes.abertas[s].pc = "escrita"
  /\ LET sessao == sessoes.abertas[s]
         reg == sessao.reg
         tabela == IF reg.tabela = "pregoes" THEN pregoes ELSE contratos
         agora == relogio + 1
         nova ==
           IF sessao.id # 0
           THEN [ tabela EXCEPT ![sessao.id] =
                    IF reg.tabela = "pregoes"
                    THEN LinhaPregaoAtualizada(sessao.existente, agora, reg)
                    ELSE LinhaContratoAtualizada(@, sessao.existente, agora, reg) ]
           ELSE IF reg.tabela = "pregoes"
                THEN RegistrarPregao(<< >>, agora, reg.numero,
                       [uasg_gerenciadora |-> NULL,
                        nome_om_gerenciadora |-> NULL, objeto |-> NULL],
                       SemFornecedor, << >>, reg.nup)
                ELSE RegistrarContrato(<< >>, agora, reg.numero,
                       [ campos |-> [c \in CAMPOS_CONTRATO_BD |-> NULL],
                         tem_assinaturas |-> FALSE ], reg.nup)
         violou == sessao.id = 0 /\ Existente(tabela, ChaveRegistro(reg)) # 0
         escrita == IF violou THEN tabela
                    ELSE IF sessao.id # 0 THEN nova
                    ELSE tabela \o nova
     IN  /\ pregoes' = IF reg.tabela = "pregoes" THEN escrita ELSE pregoes
         /\ contratos' = IF reg.tabela = "contratos" THEN escrita ELSE contratos
         /\ sessoes' = [ sessoes EXCEPT
                           !.abertas[s] =
                             [ pc |-> IF violou THEN "erro" ELSE "fim",
                               reg |-> reg ] ]
  /\ relogio' = relogio + 1
  /\ UNCHANGED <<ultima_chamada, repetida>>
  /\ UNCHANGED <<extracao, outra, chamada>>

\* conn.close() and the return, or the exception caught in app.py: the
\* connection is gone
Retornar(s) ==
  /\ sessoes.abertas[s].pc \in {"fim", "erro"}
  /\ sessoes' = [ sessoes EXCEPT !.abertas[s] = [pc |-> "ausente"] ]
  /\ UNCHANGED <<pregoes, contratos, relogio, ultima_chamada, repetida>>
  /\ UNCHANGED <<extracao, outra, chamada>>

NextConcorrente ==
  \/ \E s \in SLOTS : AbrirConexao(s)
  \/ \E s \in SLOTS : Selecionar(s)
  \/ \E s \in SLOTS : Escrever(s)
  \/ \E s \in SLOTS : Retornar(s)

\* registrations of one or two Streamlit sessions at a time
SpecConcorrente == InitRegistros /\ [][NextConcorrente]_vars

\* extrair_processo as a relation: the results a call can return for a
\* document, given the module-level OCR flag and the current date (the OCR
\* engine's output and the deadline capture are the only other inputs)
ResultadosDe(doc, ocr_disponivel, dia_hoje) ==
  UNION {
    LET classif == ClassificarPaginas(pags)
        res1 == IdentificacaoEItens(
                  [ResultadoInicial EXCEPT !.metadata = Metadados(pags)],
                  doc, pags, classif)
        prazos == { prazo \in PrazosDasNotas(pags, classif) :
                      ~ComplementarNcLevanta(
                          NotasExtraidas(pags, classif, prazo, dia_hoje)) }
    IN  { ResultadoFinal(
            [res1 EXCEPT !.nota_credito =
                ComplementarNcComReq(
                  NotasExtraidas(pags, classif, prazo, dia_hoje),
                  res1.identificacao, dia_hoje)],
            pags, classif) : prazo \in prazos }
    : pags \in PaginasPossiveis(doc, ocr_disponivel) }

(* ---------------------------------------------------------------------- *)
(* Two calls of extrair_processo running in two threads of one process     *)
(* ---------------------------------------------------------------------- *)

\* the lines of the documents given to the two calls
TRECHOS_DUAS ==
  { "Termo de Abertura",
    "NOTA DE CRÉDITO 2025NC000123 DATA EMISSÃO 10/01/2025",
    "EMPH ATÉ 9999999 DIAS." }

\* the documents given to the two calls: a file that cannot be opened or a
\* file of at most one page
DocumentosDuas ==
  { d \in Documentos :
      /\ d.falha = 0
      /\ Len(d.paginas) <= 1
      /\ \A i \in DOMAIN d.paginas : d.paginas[i] \subseteq TRECHOS_DUAS }

\* the locals of a call that is about to execute its first statement
LocaisIniciais(doc) ==
  [ pdf |-> doc,
    pc |-> "extrair_paginas",
    paginas |-> << >>,
    classificadas |-> [c \in CATEGORIAS |-> << >>],
    resultado |-> ResultadoInicial ]

\* a thread switch: the running call is suspended and the other one resumes;
\* the module-level names and the database are shared
Trocar ==
  /\ outra.pc # "ausente"
  /\ outra' = [ pdf |-> pdf, pc |-> pc, paginas |-> paginas,
                classificadas |-> classificadas, resultado |-> resultado ]
  /\ pdf' = outra.pdf
  /\ pc' = outra.pc
  /\ paginas' = outra.paginas
  /\ classificadas' = outra.classificadas
  /\ resultado' = outra.resultado
  /\ UNCHANGED <<OCR_DISPONIVEL, hoje, banco, chamada>>

InitDuas ==
  /\ InitBanco
  /\ OCR_DISPONIVEL \in BOOLEAN
  /\ hoje \in DatasHoje
  /\ pdf \in DocumentosDuas
  /\ pc = "extrair_paginas"
  /\ paginas = << >>
  /\ classificadas = [c \in CATEGORIAS |-> << >>]
  /\ resultado = ResultadoInicial
  /\ outra \in { LocaisIniciais(d) : d \in DocumentosDuas }
  /\ chamada = SemChamadaDireta

NextDuas ==
  \/ Next
  \/ Trocar

SpecDuas == InitDuas /\ [][NextDuas]_vars

(* ---------------------------------------------------------------------- *)
(* Properties of the page classifier                                       *)
(* ---------------------------------------------------------------------- *)

\* the classifier has run in this call
Classificou ==
  pc \in {"identificacao", "nota_credito", "certidoes", "retornou", "levantou"}

\* the lists of classificadas in which page number n appears
ListasDaPagina(n) == { c \in CATEGORIAS : n \in Imagem(classificadas[c]) }

\* none of the four exclusive tests matches the page text
SemTesteExclusivo(t) ==
  ~EhCapa(t) /\ ~EhTermoAbertura(t) /\ ~EhDespachoAprovo(t) /\ ~EhDespachoEncaminho(t)

CATEGORIAS_NAO_EXCLUSIVAS ==
  { "checklist", "requisicao", "nota_credito", "sicaf", "cadin",
    "consulta_consolidada" }

\* C1: a page matching the cover predicate is in the cover list and in no
\* other list; a page in the opening-term list is in no other list; a page
\* taken by the approved-dispatch test (marker plus APROVO) is in the dispatch
\* list and in no other list.
C1_Exclusivas ==
  Classificou =>
    \A i \in DOMAIN paginas :
      LET t == Upper(paginas[i].texto)
          listas == ListasDaPagina(paginas[i].numero)
      IN  /\ EhCapa(t) => listas = {"capa"}
          /\ "termo_abertura" \in listas => listas = {"termo_abertura"}
          /\ (~EhCapa(t) /\ ~EhTermoAbertura(t) /\ EhDespachoAprovo(t))
               => listas = {"despacho"}

\* C1 witness: a classified cover page that also carries a credit-note
\* indicator
C1_CapaComIndicadorNC ==
  /\ Classificou
  /\ \E i \in DOMAIN paginas :
       /\ EhCapa(Upper(paginas[i].texto))
       /\ EhNotaCredito(Upper(paginas[i].texto))
       /\ paginas[i].numero \in Imagem(classificadas["capa"])

\* C2 (as stated): a page without usable text after acquisition is in the
\* unclassified list and in no other list.
C2_SemTextoNaoClassificada ==
  Classificou =>
    \A i \in DOMAIN paginas :
      ~paginas[i].tem_texto
        => ListasDaPagina(paginas[i].numero) = {"nao_classificada"}

\* C3 (as stated): a page with the dispatch marker that neither exclusive
\* dispatch test took is in the dispatch list whatever non-exclusive
\* categories it received.
C3_DespachoSempre ==
  Classificou =>
    \A i \in DOMAIN paginas :
      LET t == Upper(paginas[i].texto)
      IN  (SemTesteExclusivo(t) /\ TemMarcadorDespacho(t))
            => "despacho" \in ListasDaPagina(paginas[i].numero)

\* C3 (amended): a page with the dispatch marker that no exclusive test took
\* is in the dispatch list exactly when it is in none of the checklist,
\* requisition, credit-note, SICAF, CADIN and consolidated-registry lists.
C3_DespachoSeNaoClassificada ==
  Classificou =>
    \A i \in DOMAIN paginas :
      LET t == Upper(paginas[i].texto)
          listas == ListasDaPagina(paginas[i].numero)
      IN  (SemTesteExclusivo(t) /\ TemMarcadorDespacho(t))
            => ("despacho" \in listas
                  <=> listas \cap CATEGORIAS_NAO_EXCLUSIVAS = {})

\* C3 witness: a page with the dispatch marker classified as credit note and
\* left out of the dispatch list
C3_MarcadorEmNotaCredito ==
  /\ Classificou
  /\ \E i \in DOMAIN paginas :
       /\ SemTesteExclusivo(Upper(paginas[i].texto))
       /\ TemMarcadorDespacho(Upper(paginas[i].texto))
       /\ "nota_credito" \in ListasDaPagina(paginas[i].numero)
       /\ "despacho" \notin ListasDaPagina(paginas[i].numero)

\* C4: among the pages no exclusive test took, a page is in the credit-note
\* list exactly when it is not in the requisition list and matches a
\* credit-note indicator; no page is in both lists.
C4_NotaCreditoSeNaoRequisicao ==
  Classificou =>
    \A i \in DOMAIN paginas :
      LET t == Upper(paginas[i].texto)
          listas == ListasDaPagina(paginas[i].numero)
      IN  /\ SemTesteExclusivo(t)
               => ("nota_credito" \in listas
                     <=> ("requisicao" \notin listas /\ EhNotaCredito(t)))
          /\ ~("requisicao" \in listas /\ "nota_credito" \in listas)

\* C4 witness: a requisition page that matches a credit-note indicator
C4_RequisicaoComIndicadorNC ==
  /\ Classificou
  /\ \E i \in DOMAIN paginas :
       /\ EhNotaCredito(Upper(paginas[i].texto))
       /\ "requisicao" \in ListasDaPagina(paginas[i].numero)

\* C5 (as stated): a checklist page scoring at least 2 requisition
\* indicators is also in the requisition list.
C5_ChecklistTambemRequisicao ==
  Classificou =>
    \A i \in DOMAIN paginas :
      ("checklist" \in ListasDaPagina(paginas[i].numero)
         /\ EhRequisicao(Upper(paginas[i].texto)))
        => "requisicao" \in ListasDaPagina(paginas[i].numero)

\* C5 (amended): a checklist page is still evaluated by the credit-note,
\* SICAF, CADIN, consolidated-registry and contract tests, but it is never
\* in the requisition list nor in the dispatch list.
C5_ChecklistSemRequisicao ==
  Classificou =>
    \A i \in DOMAIN paginas :
      LET t == Upper(paginas[i].texto)
          listas == ListasDaPagina(paginas[i].numero)
      IN  "checklist" \in listas =>
            /\ "requisicao" \notin listas
            /\ "despacho" \notin listas
            /\ "nota_credito" \in listas <=> EhNotaCredito(t)
            /\ "sicaf" \in listas <=> EhSicaf(t)
            /\ "cadin" \in listas <=> EhCadin(t)
            /\ "consulta_consolidada" \in listas <=> EhConsultaConsolidada(t)
            /\ "contrato" \in listas <=> EhContrato(t)

\* C5 witness: a checklist page scoring at least 2 requisition indicators
C5_ChecklistComIndicadoresReq ==
  /\ Classificou
  /\ \E i \in DOMAIN paginas :
       /\ "checklist" \in ListasDaPagina(paginas[i].numero)
       /\ EhRequisicao(Upper(paginas[i].texto))

(* ---------------------------------------------------------------------- *)
(* Properties of the registries (under SpecBanco)                          *)
(* ---------------------------------------------------------------------- *)

\* no two positions of seq hold the same value
SemRepeticao(seq) ==
  \A i, j \in DOMAIN seq : seq[i] = seq[j] => i = j

\* C6 (as stated): every stored auction has no two suppliers with the same
\* CNPJ, no two items with the same description and no repeated NUP; every
\* stored contract has no repeated NUP.
C6_SemDuplicatas ==
  /\ \A p \in DOMAIN pregoes :
       /\ SemRepeticao([k \in DOMAIN pregoes[p].fornecedores |->
                          pregoes[p].fornecedores[k].cnpj])
       /\ SemRepeticao([k \in DOMAIN pregoes[p].itens |->
                          pregoes[p].itens[k].descricao])
       /\ SemRepeticao(pregoes[p].processos_vinculados)
  /\ \A c \in DOMAIN contratos : SemRepeticao(contratos[c].processos_vinculados)

\* the rows of a table without the last-use timestamp
SemUltimoUso(tabela) ==
  [ i \in DOMAIN tabela |->
      [ campo \in DOMAIN tabela[i] \ {"ultimo_uso"} |-> tabela[i][campo] ] ]

C8_Idempotente ==
  [][ repetida' =>
        /\ SemUltimoUso(pregoes') = SemUltimoUso(pregoes)
        /\ SemUltimoUso(contratos') = SemUltimoUso(contratos) ]_vars

\* C8 witness: an auction with a supplier, items and a NUP registered twice
\* in a row
C8_PregaoRepetido ==
  /\ repetida
  /\ ultima_chamada.tipo = "pregao"
  /\ ultima_chamada.res.itens # << >>
  /\ ~Vazio(ultima_chamada.res.fornecedor.cnpj)
  /\ Len(pregoes) = 1

(* ---------------------------------------------------------------------- *)
(* Properties of extrair_processo as a whole (under Spec)                  *)
(* ---------------------------------------------------------------------- *)

\* C9: when the PDF cannot be opened the call does not raise, the page list
\* is empty, and the call returns a result with total pages 0, empty item,
\* credit-note and dispatch lists and a null process type.
C9_PdfNaoAbre ==
  ~pdf.abre =>
    /\ pc # "levantou"
    /\ pc = "retornou" \/ ENABLED Next
    /\ paginas = << >>
    /\ pc = "retornou" =>
         /\ resultado.metadata.total_paginas = 0
         /\ resultado.itens = << >>
         /\ resultado.nota_credito = << >>
         /\ resultado.despachos = << >>
         /\ resultado.identificacao.tipo = NULL

\* C9 witness: the call on an unreadable file has returned
C9_RetornouSemPdf == pc = "retornou" /\ ~pdf.abre

\* C10 (as stated): for any input file the call returns a result and does
\* not raise.
C10_NuncaLevanta == pc # "levantou" /\ (pc = "retornou" \/ ENABLED Next)

(* ---------------------------------------------------------------------- *)
(* Direct calls of the section parsers and of the helpers                  *)
(* ---------------------------------------------------------------------- *)

\* the joined texts of the contract pages given to _extrair_contrato
TextosContrato ==
  { t \in SUBSET (DOMAIN CAMPOS_CONTRATO) : Cardinality(t) <= MaxLinhasContrato }

ChamarExtrairContrato ==
  /\ pc = "parado" /\ chamada = SemChamadaDireta
  /\ \E texto \in TextosContrato :
       chamada' = [ funcao |-> "_extrair_contrato", entrada |-> texto,
                    saida |-> ExtrairContrato(texto) ]
  /\ UNCHANGED <<extracao, banco, outra>>

\* _inferir_tipo_processo on an identification whose tipo_empenho is what
\* _extrair_requisicao gives for one line, whose contract and auction numbers
\* are present or not, with or without checklist and contract pages
ChamarInferirTipo ==
  /\ pc = "parado" /\ chamada = SemChamadaDireta
  /\ \E texto \in {{}} \cup { {l} : l \in DOMAIN TIPO_EMPENHO },
        nr_contrato \in {NULL, "59/2024"},
        nr_pregao \in {NULL, "90004/2025"},
        checklist \in {<< >>, <<1>>},
        contrato \in {<< >>, <<1>>} :
       LET ident == [IdentVazia EXCEPT
                       !.tipo_empenho = ExtrairRequisicao(texto).tipo_empenho,
                       !.nr_contrato = nr_contrato,
                       !.nr_pregao = nr_pregao]
           classif == [c \in CATEGORIAS |->
                         IF c = "checklist" THEN checklist
                         ELSE IF c = "contrato" THEN contrato ELSE << >>]
       IN  chamada' = [ funcao |-> "_inferir_tipo_processo",
                        entrada |-> [ texto |-> texto, ident |-> ident,
                                      classif |-> classif ],
                        saida |-> InferirTipoProcesso(ident, classif) ]
  /\ UNCHANGED <<extracao, banco, outra>>

\* what a stage can find: nothing, the name only, the CNPJ only, both
Achados(nome, numero) ==
  { [fornecedor |-> f, cnpj |-> c] : f \in {NULL, nome}, c \in {NULL, numero} }

\* lines 276-333 of extrair_processo as far as the supplier is concerned:
\* the merge of the requisition data, the embedded-image OCR fallback and
\* the SICAF fallback, each stage with its own findings
ChamarCascataFornecedor ==
  /\ pc = "parado" /\ chamada = SemChamadaDireta
  /\ \E req \in Achados("EMPRESA REQ LTDA", "11.111.111/0001-11"),
        img \in Achados("EMPRESA OCR LTDA", "22.222.222/0001-22"),
        sicaf \in Achados("EMPRESA SICAF LTDA", "33.333.333/0001-33"),
        ocr_disponivel \in BOOLEAN,
        tem_sicaf \in BOOLEAN :
       LET dados_req == [ExtrairRequisicao({}) EXCEPT
                           !.fornecedor = req.fornecedor, !.cnpj = req.cnpj]
           certidoes == [CertidoesVazias EXCEPT
                           !.sicaf = [ extraido |-> tem_sicaf,
                                       cnpj |-> sicaf.cnpj,
                                       razao_social |-> sicaf.fornecedor ]]
           apos_req == MesclarIdentificacao(IdentVazia, dados_req)
           apos_ocr == ComplementarFornecedorComOCR(apos_req, img, ocr_disponivel)
           apos_sicaf == ComplementarFornecedorComCertidoes(apos_ocr, certidoes)
       IN  chamada' = [ funcao |-> "fornecedor",
                        entrada |-> [ req |-> req, img |-> img, sicaf |-> sicaf,
                                      ocr_disponivel |-> ocr_disponivel,
                                      tem_sicaf |-> tem_sicaf ],
                        saida |-> [ apos_req |-> apos_req, apos_ocr |-> apos_ocr,
                                    apos_sicaf |-> apos_sicaf ] ]
  /\ UNCHANGED <<extracao, banco, outra>>

\* the postings an event section can hold: an event line with its amount and
\* the data line found after it, or an event line with no data line
Lancamentos ==
  { [ tem_dados |-> TRUE, esf |-> "1", ptres |-> p, fonte |-> "1021000000",
      nd |-> nd, ugr |-> "167504", pi |-> "E3PCFSCDEGE", valor |-> v ] :
      p \in {"232180", "232181"}, nd \in {"339000", "339030", "339039"},
      v \in {100000, 200000} }
  \cup { [ tem_dados |-> FALSE, esf |-> "", ptres |-> "", fonte |-> "",
           nd |-> "", ugr |-> "", pi |-> "", valor |-> 100000 ] }

\* _processar_linhas_evento_dd and the balances of lines 2388-2419
ChamarProcessarLinhasEvento ==
  /\ pc = "parado" /\ chamada = SemChamadaDireta
  /\ \E n \in 0..MaxLancamentos : \E lancamentos \in [1..n -> Lancamentos] :
       LET linhas_evento == ProcessarLinhasEventoDD(lancamentos)
           saldos_por_nd == SaldosPorNd(linhas_evento)
       IN  chamada' = [ funcao |-> "_processar_linhas_evento_dd",
                        entrada |-> lancamentos,
                        saida |-> [ linhas_evento |-> linhas_evento,
                                    saldos_por_nd |-> saldos_por_nd,
                                    valor_total |-> Soma(saldos_por_nd) ] ]
  /\ UNCHANGED <<extracao, banco, outra>>

\* the lines of one requisition page as _extrair_mascara_requisitante sees
\* them: how many physical lines the entry stands for and which of the
\* function's patterns match it. "campo67" is the header pattern of field 6
\* or 7, "fim" the lookahead that ends the field block (a line starting with
\* a number and a dot), a credit-note number stands for re.escape(nc),
\* "ND" is r"\bND\s", "PI" r"\bPI\s", "PE" r"\bPE\s", "PE_d" r"\bPE\s+\d",
\* "UASG_d" r"\bUASG\s+\d"
LINHAS_REQ ==
  "6. Material/Serviço a ser adquirido:" :> [n |-> 1, marcas |-> {"campo67", "fim"}] @@
  "8. Justificativa:" :> [n |-> 1, marcas |-> {"fim"}] @@
  "NC 2025NC000123" :> [n |-> 1, marcas |-> {"2025NC000123"}] @@
  "ND 339030" :> [n |-> 1, marcas |-> {"ND"}] @@
  "PI E6SUPLJA5PA" :> [n |-> 1, marcas |-> {"PI"}] @@
  "PE 90004/2025" :> [n |-> 1, marcas |-> {"PE", "PE_d"}] @@
  "UASG 160136" :> [n |-> 1, marcas |-> {"UASG_d"}] @@
  "Observação" :> [n |-> JANELA, marcas |-> {}]

\* the physical lines of a text given as a sequence of entries of LINHAS_REQ
RECURSIVE LinhasFisicas(_)
LinhasFisicas(texto) ==
  IF texto = << >> THEN << >>
  ELSE [i \in 1..LINHAS_REQ[Head(texto)].n |-> Head(texto)]
         \o LinhasFisicas(Tail(texto))

\* _extrair_mascara_requisitante on the lines of one page (no blank line, no
\* newline after the last line); the mask is the accepted block, its lines
\* joined by single spaces
ExtrairMascaraRequisitante(linhas, nc) ==
  LET n == Len(linhas)
      marcas(bloco) ==
        UNION { LINHAS_REQ[bloco[i]].marcas : i \in DOMAIN bloco }
      \* the block of line i + 1 up to the line before the first line
      \* after i + 1 that the lookahead accepts
      fins(i) == { j \in (i + 2)..n : "fim" \in LINHAS_REQ[linhas[j]].marcas }
      cabecalhos == { i \in 1..n : "campo67" \in LINHAS_REQ[linhas[i]].marcas
                                    /\ fins(i) # {} }
      inicio == CHOOSE i \in cabecalhos : \A k \in cabecalhos : i <= k
      fim == CHOOSE j \in fins(inicio) : \A k \in fins(inicio) : j <= k
      bloco_campo67 == SubSeq(linhas, inicio + 1, fim - 1)
      tem_nd == "ND" \in marcas(bloco_campo67)
      tem_pi_pe == marcas(bloco_campo67) \cap {"PI", "PE", "CONT"} # {}
      ocorrencias == { k \in 1..n : nc \in LINHAS_REQ[linhas[k]].marcas }
      primeira == CHOOSE k \in ocorrencias : \A m \in ocorrencias : k <= m
      candidato ==
        SubSeq(linhas, primeira,
               IF primeira + JANELA <= n THEN primeira + JANELA ELSE n)
      tem_nd_2 == "ND" \in marcas(candidato)
      tem_pe_uasg == marcas(candidato) \cap {"PE_d", "UASG_d", "CONT"} # {}
  IN  IF nc = NULL THEN Nenhum
      ELSE IF /\ cabecalhos # {}
              /\ nc \in marcas(bloco_campo67)
              /\ tem_nd /\ tem_pi_pe
           THEN Algum(bloco_campo67)
      ELSE IF ocorrencias # {} /\ tem_nd_2 /\ tem_pe_uasg
           THEN Algum(candidato)
      ELSE Nenhum

\* lines 934-939 and 1060 of _extrair_requisicao on a page text of at most
\* MaxLinhasMascara entries: the primary credit-note number is the first
\* number of the text (none when the text has no number), and the mask is
\* extracted with it
ChamarExtrairMascaraRequisitante ==
  /\ pc = "parado" /\ chamada = SemChamadaDireta
  /\ \E k \in 0..MaxLinhasMascara : \E texto \in [1..k -> DOMAIN LINHAS_REQ] :
       LET linhas == LinhasFisicas(texto)
           ncs == { i \in DOMAIN linhas :
                      "2025NC000123" \in LINHAS_REQ[linhas[i]].marcas }
           nc == IF ncs = {} THEN NULL ELSE "2025NC000123"
       IN  chamada' = [ funcao |-> "_extrair_mascara_requisitante",
                        entrada |-> [ linhas |-> linhas, nc |-> nc ],
                        saida |-> ExtrairMascaraRequisitante(linhas, nc) ]
  /\ UNCHANGED <<extracao, banco, outra>>

\* the lines a credit-note text is made of: the headers of the two formats
\* (the terminal one with and without its emission date) and the deadline
\* lines of the three labels
LINHAS_NC ==
  { "NOTA DE CRÉDITO 2025NC000123 DATA EMISSÃO 10/01/2025",
    "DOCUMENTO WEB : 2025NC000123 DATA EMISSAO : 10Jan25",
    "DOCUMENTO WEB : 2025NC000123",
    "EMPH ATÉ 30 DIAS.", "EMPH ATÉ 9999999 DIAS.",
    "EMPENHO ATÉ 30JUN25", "EMPENHO ATÉ 30 DIAS",
    "Prazo de empenho 30 DIAS." }

\* lines 311-324 of extrair_processo on a credit-note text:
\* _extrair_nota_credito, then _complementar_nc_com_req, which returns the
\* complemented notes or raises
ChamarComplementarNc ==
  /\ pc = "parado" /\ chamada = SemChamadaDireta
  /\ \E texto \in SUBSET LINHAS_NC :
       \E prazo \in PrazosPossiveis(texto) :
         LET notas == ExtrairNotaCredito(texto, prazo, hoje)
         IN  chamada' =
               [ funcao |-> "_complementar_nc_com_req",
                 entrada |-> [ texto |-> texto, notas |-> notas,
                               ident |-> IdentVazia ],
                 saida |-> IF ComplementarNcLevanta(notas)
                           THEN [ levantou |-> TRUE, ncs |-> << >> ]
                           ELSE [ levantou |-> FALSE,
                                  ncs |-> ComplementarNcComReq(
                                            notas, IdentVazia, hoje) ] ]
  /\ UNCHANGED <<extracao, banco, outra>>

(* ---------------------------------------------------------------------- *)
(* The native item table                                                   *)
(* ---------------------------------------------------------------------- *)

\* the header cells of an item table: the field the column carries in the
\* document, and the key _mapear_colunas gives the cell (the first pattern
\* of its chain that matches; "P.TOTAL" matches none: r"P[\s]*TOTAL" allows
\* only blanks between the P and TOTAL)
COLUNAS ==
  "ITEM" :> [campo |-> "item", chave |-> "item"] @@
  "CATSERV" :> [campo |-> "catserv", chave |-> "catserv"] @@
  "DESCRIÇÃO" :> [campo |-> "descricao", chave |-> "descricao"] @@
  "UND" :> [campo |-> "und", chave |-> "und"] @@
  "QTD" :> [campo |-> "qtd", chave |-> "qtd"] @@
  "P.UNT" :> [campo |-> "p_unit", chave |-> "p_unit"] @@
  "P.TOTAL" :> [campo |-> "p_total", chave |-> NULL] @@
  "P TOTAL" :> [campo |-> "p_total", chave |-> "p_total"]

\* _mapear_colunas: the position of the first cell of each key, 0 for a key
\* that no cell of the header gives
MapearColunas(cabecalho) ==
  [ chave \in { "item", "catserv", "descricao", "und", "qtd", "nd_si",
                "p_unit", "p_total" } |->
      LET celulas == { i \in DOMAIN cabecalho :
                         COLUNAS[cabecalho[i]].chave = chave }
      IN  IF celulas = {} THEN 0
          ELSE CHOOSE i \in celulas : \A k \in celulas : i <= k ]

\* _parse_valor_br on the numbers of the vocabulary, in hundredths
PARSE_VALOR_BR ==
  "10,000" :> 1000 @@ "3,000" :> 300 @@ "0,000" :> 0 @@ "13,000" :> 1300 @@
  "5,00" :> 500 @@ "50,00" :> 5000 @@ "100,00" :> 10000

\* the cell of a row under a key: str(linha[idx]).replace("\n", " ").strip()
\* changes no cell of the vocabulary; None for a key without column, a
\* column beyond the row, or a cell that is None or empty
Celula(linha, mapa, chave) ==
  IF mapa[chave] # 0 /\ mapa[chave] <= Len(linha) /\ ~Vazio(linha[mapa[chave]])
  THEN linha[mapa[chave]] ELSE NULL

\* _processar_linha_item: no item for a row whose item cell is empty, says
\* TOTAL or ITEM, or has no digit; no cell of the vocabulary is longer than
\* 15 characters, so a missing description stays missing
ProcessarLinhaItem(linha, mapa) ==
  LET item_num == "1" :> 1 @@ "2" :> 2 @@ "0" :> 0
      sem_cifrao == "R$ 5,00" :> "5,00" @@ "R$ 50,00" :> "50,00"
                      @@ "R$ 100,00" :> "100,00"
      limpar_valor(v) == IF Vazio(v) THEN Nenhum
                         ELSE Algum(PARSE_VALOR_BR[sem_cifrao[v]])
      item_str == Celula(linha, mapa, "item")
  IN  IF Vazio(item_str) \/ item_str \notin DOMAIN item_num THEN Nenhum
      ELSE Algum([ item |-> item_num[item_str],
                   catserv |-> Celula(linha, mapa, "catserv"),
                   descricao |-> Celula(linha, mapa, "descricao"),
                   und |-> Celula(linha, mapa, "und"),
                   qtd |-> IF Celula(linha, mapa, "qtd") # NULL
                           THEN Algum(PARSE_VALOR_BR[Celula(linha, mapa, "qtd")])
                           ELSE Nenhum,
                   nd_si |-> Celula(linha, mapa, "nd_si"),
                   p_unit |-> limpar_valor(Celula(linha, mapa, "p_unit")),
                   p_total |-> limpar_valor(Celula(linha, mapa, "p_total")) ])

\* _complementar_item: a field counts as filled when it is truthy, so a
\* quantity of 0.0 counts as empty
ComplementarItem(item_dict, linha_cont, mapa) ==
  LET novo(campo) == Celula(linha_cont, mapa, campo)
  IN  [ item_dict EXCEPT
          !.catserv = IF Vazio(@) /\ novo("catserv") # NULL
                      THEN novo("catserv") ELSE @,
          !.und = IF Vazio(@) /\ novo("und") # NULL THEN novo("und") ELSE @,
          !.qtd = IF (~@.tem \/ @.v = 0) /\ novo("qtd") # NULL
                  THEN Algum(PARSE_VALOR_BR[novo("qtd")]) ELSE @ ]

\* the rows after an item row that are read as its continuation
\* (range(i + 1, min(i + 3, len(tabela))))
CONTINUACOES == 2

\* _processar_tabela_itens on a table whose first row is the header
\* (_encontrar_cabecalho_itens finds its keywords there; no data row of the
\* vocabulary carries them, and none is empty)
ProcessarTabelaItens(tabela) ==
  LET n == Len(tabela)
      mapa == MapearColunas(tabela[1])
      \* the next item, not a continuation: the item cell is filled and
      \* does not start with TOTAL
      proximo(linha) == /\ mapa["item"] <= Len(linha)
                        /\ ~Vazio(linha[mapa["item"]])
                        /\ linha[mapa["item"]] # "TOTAL"
      \* the item of row i after the rows i + 1 .. j were looked at
      apos(i) ==
        LET f[j \in i..n] ==
              IF j = i
              THEN [ item |-> ProcessarLinhaItem(tabela[i], mapa).v,
                     parou |-> FALSE ]
              ELSE IF f[j - 1].parou \/ proximo(tabela[j])
                   THEN [ item |-> f[j - 1].item, parou |-> TRUE ]
                   ELSE [ item |-> ComplementarItem(
                                     f[j - 1].item, tabela[j], mapa),
                          parou |-> FALSE ]
        IN  f[IF i + CONTINUACOES <= n THEN i + CONTINUACOES ELSE n].item
      itens[i \in 2..(n + 1)] ==
        IF i > n THEN << >>
        ELSE (IF ProcessarLinhaItem(tabela[i], mapa).tem
              THEN << apos(i) >> ELSE << >>) \o itens[i + 1]
  IN  IF n < 2 \/ mapa["item"] = 0 THEN << >> ELSE itens[2]

\* the rows of an item table by the field of each cell: the row of a full
\* item, an item with a quantity of zero and no unit, an item numbered 0,
\* two rows without item number, and a total row
LINHAS_TABELA ==
  LET linha(item, catserv, descricao, und, qtd, p_unit, p_total) ==
        [ item |-> item, catserv |-> catserv, descricao |-> descricao,
          und |-> und, qtd |-> qtd, p_unit |-> p_unit, p_total |-> p_total ]
  IN  { linha("1", NULL, "X", "UN", "10,000", "R$ 5,00", "R$ 50,00"),
        linha("2", NULL, "Y", NULL, "0,000", "R$ 5,00", "R$ 50,00"),
        linha("0", NULL, "Z", NULL, NULL, NULL, NULL),
        linha(NULL, "12345", NULL, "CX", "3,000", NULL, NULL),
        linha(NULL, "67890", NULL, NULL, NULL, NULL, NULL),
        linha("TOTAL", NULL, NULL, NULL, "13,000", NULL, "R$ 100,00") }

\* _processar_tabela_itens on a table of a header and up to MaxLinhasTabela
\* rows, each cell under the column of its field
ChamarProcessarTabelaItens ==
  /\ pc = "parado" /\ chamada = SemChamadaDireta
  /\ \E cabecalho \in { <<"ITEM", "DESCRIÇÃO", "UND", "QTD", "P.UNT", "P.TOTAL">>,
                        <<"ITEM", "CATSERV", "DESCRIÇÃO", "UND", "QTD", "P.UNT",
                          "P TOTAL">> } :
       \E k \in 0..MaxLinhasTabela : \E linhas \in [1..k -> LINHAS_TABELA] :
         LET tabela == <<cabecalho>> \o
               [ i \in 1..k |->
                   [ c \in DOMAIN cabecalho |->
                       linhas[i][COLUNAS[cabecalho[c]].campo] ] ]
         IN  chamada' = [ funcao |-> "_processar_tabela_itens",
                          entrada |-> tabela,
                          saida |-> ProcessarTabelaItens(tabela) ]
  /\ UNCHANGED <<extracao, banco, outra>>

\* parse_data_flexivel on a token
ChamarParseDataFlexivel ==
  /\ pc = "parado" /\ chamada = SemChamadaDireta
  /\ \E texto \in DOMAIN CAPTURAS_DATA \cup {"30 DIAS", "30"} :
       chamada' = [ funcao |-> "parse_data_flexivel",
                    entrada |-> texto,
                    saida |-> DataFlexivel(texto) ]
  /\ UNCHANGED <<extracao, banco, outra>>

\* _corrigir_numero_pregao on a number of up to MaxDigitosPregao digits and
\* a year (or on a string with no "/" or with two), and again on what it
\* returned
ChamarCorrigirNumeroPregao ==
  /\ pc = "parado" /\ chamada = SemChamadaDireta
  /\ \E k \in 0..MaxDigitosPregao : \E nr \in [1..k -> {0, 1, 4, 9}] :
       \E ano \in { <<2, 0, 2, 4>>, ANO } :
         \E numero \in { <<nr>>, <<nr, ano>>, <<nr, ano, ano>> } :
           chamada' = [ funcao |-> "_corrigir_numero_pregao",
                        entrada |-> numero,
                        saida |-> [ uma |-> CorrigirNumeroPregao(numero),
                                    duas |-> CorrigirNumeroPregao(
                                               CorrigirNumeroPregao(numero)) ] ]
  /\ UNCHANGED <<extracao, banco, outra>>

(* ---------------------------------------------------------------------- *)
(* The party CNPJs of _extrair_contrato.  The text is a sequence of       *)
(* fragments joined by one space; what matters to the patterns is where   *)
(* the party labels and the CNPJ numbers stand and how far apart.         *)
(* ---------------------------------------------------------------------- *)

MaxFragmentos == 3

\* the reach of .{0,300}? in the proximity patterns
ALCANCE == 300

\* fragment -> what the patterns see in it: a party label, a CNPJ number
\* (after the word "CNPJ" or bare), prose without either; and its length
FRAGMENTOS ==
  "CONTRATANTE" :> [rotulo |-> "contratante", cnpj |-> NULL, prefixo |-> FALSE, comp |-> 11] @@
  "CONTRATADA" :> [rotulo |-> "contratada", cnpj |-> NULL, prefixo |-> FALSE, comp |-> 10] @@
  "CNPJ: 11.111.111/0001-11" :>
     [rotulo |-> NULL, cnpj |-> "11.111.111/0001-11", prefixo |-> TRUE, comp |-> 24] @@
  "CNPJ: 22.222.222/0001-22" :>
     [rotulo |-> NULL, cnpj |-> "22.222.222/0001-22", prefixo |-> TRUE, comp |-> 24] @@
  "11.111.111/0001-11" :>
     [rotulo |-> NULL, cnpj |-> "11.111.111/0001-11", prefixo |-> FALSE, comp |-> 18] @@
  "22.222.222/0001-22" :>
     [rotulo |-> NULL, cnpj |-> "22.222.222/0001-22", prefixo |-> FALSE, comp |-> 18] @@
  "prosa de 298 caracteres" :>
     [rotulo |-> NULL, cnpj |-> NULL, prefixo |-> FALSE, comp |-> 298] @@
  "prosa de 299 caracteres" :>
     [rotulo |-> NULL, cnpj |-> NULL, prefixo |-> FALSE, comp |-> 299]

\* re.findall(r"\d{2}\.\d{3}\.\d{3}/\d{4}-\d{2}", texto): every occurrence,
\* in text order
TodosCnpjs(texto) ==
  LET f[i \in 0..Len(texto)] ==
        IF i = 0 THEN << >>
        ELSE IF FRAGMENTOS[texto[i]].cnpj # NULL
             THEN Append(f[i - 1], FRAGMENTOS[texto[i]].cnpj)
             ELSE f[i - 1]
  IN  f[Len(texto)]

\* re.search(r"<rotulo>.{0,300}?CNPJ[:\s]*(<cnpj>)", texto, I | S): the
\* first label from which a "CNPJ" followed by a number begins at most 300
\* characters after the label ends, and the nearest such number
CnpjProximo(texto, rotulo) ==
  LET inicio[i \in 1..Len(texto)] ==
        IF i = 1 THEN 0 ELSE inicio[i - 1] + FRAGMENTOS[texto[i - 1]].comp + 1
      fim(i) == inicio[i] + FRAGMENTOS[texto[i]].comp
      alvos(i) == { j \in DOMAIN texto :
                      /\ j > i
                      /\ FRAGMENTOS[texto[j]].prefixo
                      /\ inicio[j] - fim(i) <= ALCANCE }
      rotulos == { i \in DOMAIN texto :
                     FRAGMENTOS[texto[i]].rotulo = rotulo /\ alvos(i) # {} }
  IN  IF rotulos = {} THEN NULL
      ELSE LET i == CHOOSE x \in rotulos : \A y \in rotulos : x <= y
               j == CHOOSE x \in alvos(i) : \A y \in alvos(i) : x <= y
           IN  FRAGMENTOS[texto[j]].cnpj

\* _extrair_contrato, the two party CNPJs
CnpjsContrato(texto) ==
  LET cnpjs == TodosCnpjs(texto)
      contratante == CnpjProximo(texto, "contratante")
      contratada == CnpjProximo(texto, "contratada")
  IN  IF contratada # NULL
      THEN [cnpj_contratante |-> contratante, cnpj_contratada |-> contratada]
      ELSE IF Len(cnpjs) >= 2
      THEN [cnpj_contratante |-> IF contratante # NULL THEN contratante
                                 ELSE cnpjs[1],
            cnpj_contratada |-> cnpjs[2]]
      ELSE [cnpj_contratante |-> contratante, cnpj_contratada |-> NULL]

SequenciasDeFragmentos ==
  UNION { [1..n -> DOMAIN FRAGMENTOS] : n \in 0..MaxFragmentos }

\* _extrair_contrato on the text of the contract pages, as far as the party
\* CNPJs go
ChamarCnpjsContrato ==
  /\ pc = "parado" /\ chamada = SemChamadaDireta
  /\ \E texto \in SequenciasDeFragmentos :
       chamada' = [ funcao |-> "_extrair_contrato: cnpjs", entrada |-> texto,
                    saida |-> CnpjsContrato(texto) ]
  /\ UNCHANGED <<extracao, banco, outra>>

(* ---------------------------------------------------------------------- *)
(* The parsers _extrair_nota_credito tries, and the credit notes each one *)
(* returns, on a section text given as its lines in reading order.        *)
(* ---------------------------------------------------------------------- *)

MaxLinhasSecao == 4

\* line -> the number r"(20\d{2}NC\d{6})" finds in it, whether
\* r"DOCUMENTO\s+WEB\s*:\s*(20\d{2}NC\d{6})" finds it, and whether the line
\* holds one of the terminal-screen markers
LINHAS_SECAO ==
  "NOTA DE CRÉDITO 2025NC000123" :> [numero |-> "2025NC000123", web |-> FALSE, marcador |-> FALSE] @@
  "NOTA DE CRÉDITO 2025NC000456" :> [numero |-> "2025NC000456", web |-> FALSE, marcador |-> FALSE] @@
  "DOCUMENTO WEB : 2025NC000456" :> [numero |-> "2025NC000456", web |-> TRUE, marcador |-> TRUE] @@
  "__ SIAFI2025-DOCUMENTO-CONSULTA-DEMONSTRA-DIARIO" :>
     [numero |-> NULL, web |-> FALSE, marcador |-> TRUE] @@
  "UG EMITENTE 160073" :> [numero |-> NULL, web |-> FALSE, marcador |-> FALSE]

\* list(dict.fromkeys(re.findall(r"(20\d{2}NC\d{6})", texto)))
NumerosNc(texto) ==
  LET f[i \in 0..Len(texto)] ==
        IF i = 0 THEN << >>
        ELSE LET n == LINHAS_SECAO[texto[i]].numero
             IN  IF n = NULL \/ \E k \in DOMAIN f[i - 1] : f[i - 1][k] = n
                 THEN f[i - 1]
                 ELSE Append(f[i - 1], n)
  IN  f[Len(texto)]

\* the format test of _extrair_nota_credito on the section text
TemMarcadorDD(texto) == \E i \in DOMAIN texto : LINHAS_SECAO[texto[i]].marcador

\* _extrair_nc_demonstra_diario, the records and their numbers: one record,
\* for the number after DOCUMENTO WEB or else for the first number of the text
NumerosDemonstraDiario(texto) ==
  LET web == { i \in DOMAIN texto : LINHAS_SECAO[texto[i]].web }
  IN  IF web # {}
      THEN << LINHAS_SECAO[texto[CHOOSE i \in web : \A j \in web : i <= j]].numero >>
      ELSE IF NumerosNc(texto) # << >> THEN << NumerosNc(texto)[1] >>
      ELSE << >>

\* _extrair_nc_padrao, the records and their numbers
NumerosPadrao(texto) == NumerosNc(texto)

\* a variant that tries the standard parser before the terminal one
ParsersDaSecaoPadraoPrimeiro(texto) ==
  LET como(numeros, formato) ==
        [ i \in DOMAIN numeros |-> [numero |-> numeros[i], formato |-> formato] ]
  IN  IF texto = << >> THEN [executados |-> << >>, notas |-> << >>]
      ELSE IF NumerosPadrao(texto) # << >>
      THEN [ executados |-> <<"padrao">>,
             notas |-> como(NumerosPadrao(texto), "padrao") ]
      ELSE IF TemMarcadorDD(texto)
      THEN [ executados |-> <<"padrao", "demonstra_diario", "numeros">>,
             notas |-> << >> ]
      ELSE [ executados |-> <<"padrao", "numeros">>, notas |-> << >> ]

\* _extrair_nota_credito: the parsers it runs, in order, and the number and
\* formato of the records it returns
ParsersDaSecao(texto) ==
  LET como(numeros, formato) ==
        [ i \in DOMAIN numeros |-> [numero |-> numeros[i], formato |-> formato] ]
      antes == IF TemMarcadorDD(texto) THEN <<"demonstra_diario">> ELSE << >>
  IN  IF texto = << >> THEN [executados |-> << >>, notas |-> << >>]
      ELSE IF TemMarcadorDD(texto) /\ NumerosDemonstraDiario(texto) # << >>
      THEN [ executados |-> <<"demonstra_diario">>,
             notas |-> como(NumerosDemonstraDiario(texto), "demonstra_diario") ]
      ELSE IF NumerosPadrao(texto) # << >>
      THEN [ executados |-> antes \o <<"padrao">>,
             notas |-> como(NumerosPadrao(texto), "padrao") ]
      ELSE [ executados |-> antes \o <<"padrao", "numeros">>,
             notas |-> como(NumerosNc(texto), "nao_extraido") ]

\* _extrair_nota_credito on one credit-note page with the given lines
ChamarExtrairNotaCredito ==
  /\ pc = "parado" /\ chamada = SemChamadaDireta
  /\ \E texto \in UNION { [1..n -> DOMAIN LINHAS_SECAO] : n \in 0..MaxLinhasSecao } :
       chamada' = [ funcao |-> "_extrair_nota_credito", entrada |-> texto,
                    saida |-> ParsersDaSecao(texto) ]
  /\ UNCHANGED <<extracao, banco, outra>>

\* mapa_campos of _complementar_nc_com_req, with a code the credit-note
\* parsers extract for each field and a different one the requisition gives
CODIGOS_NC ==
  [ nd |-> "339030", ptres |-> "171460", fonte |-> "1000000000",
    ugr |-> "160073", pi |-> "I3DAFUNADOM" ]

CODIGOS_REQ ==
  [ nd |-> "339039", ptres |-> "171397", fonte |-> "1021000000",
    ugr |-> "160136", pi |-> "E6SUPLJA5PA" ]

\* _complementar_nc_com_req on one credit note whose codes, total and balance
\* were extracted or not, and an identification that holds each code or not
ChamarComplementarCampos ==
  /\ pc = "parado" /\ chamada = SemChamadaDireta
  /\ \E na_nc, na_req \in SUBSET DOMAIN CODIGOS_NC,
        valor_total, saldo \in {Nenhum, Algum(0), Algum(900000)} :
       LET de(tem, codigos, campo, vazio) ==
             IF campo \in tem THEN codigos[campo] ELSE vazio[campo]
           vazia == NcVazia("2025NC000123", "padrao")
           nc == [ c \in DOMAIN vazia |->
                     IF c \in DOMAIN CODIGOS_NC THEN de(na_nc, CODIGOS_NC, c, vazia)
                     ELSE IF c = "valor_total" THEN valor_total
                     ELSE IF c = "saldo" THEN saldo
                     ELSE vazia[c] ]
           ident == [ c \in DOMAIN IdentVazia |->
                        IF c \in DOMAIN CODIGOS_REQ
                        THEN de(na_req, CODIGOS_REQ, c, IdentVazia)
                        ELSE IdentVazia[c] ]
       IN  chamada' =
             [ funcao |-> "_complementar_nc_com_req",
               entrada |-> [ texto |-> {}, notas |-> <<nc>>, ident |-> ident ],
               saida |-> [ levantou |-> FALSE,
                           ncs |-> ComplementarNcComReq(<<nc>>, ident, hoje) ] ]
  /\ UNCHANGED <<extracao, banco, outra>>

NextFuncoes ==
  \/ ChamarComplementarCampos
  \/ ChamarExtrairNotaCredito
  \/ ChamarCnpjsContrato
  \/ ChamarExtrairContrato
  \/ ChamarParseDataFlexivel
  \/ ChamarProcessarTabelaItens
  \/ ChamarCorrigirNumeroPregao
  \/ ChamarExtrairMascaraRequisitante
  \/ ChamarComplementarNc
  \/ ChamarProcessarLinhasEvento
  \/ ChamarCascataFornecedor
  \/ ChamarInferirTipo

\* the parsing functions keep no state between calls, so a behaviour of this
\* specification is one call of one of them on one input
SpecFuncoes == InitRegistros /\ [][NextFuncoes]_vars

(* ---------------------------------------------------------------------- *)
(* Degradation without OCR                                                 *)
(* ---------------------------------------------------------------------- *)

\* C11 (as stated): when the OCR libraries are unavailable, the metadata of
\* the returned result records it: the metadata returned without OCR is not
\* a metadata the same document can produce when the OCR libraries are
\* available.
C11_MetadadosRegistramOCR ==
  (pc = "retornou" /\ ~OCR_DISPONIVEL)
    => resultado.metadata \notin
         { Metadados(p) : p \in PaginasPossiveis(pdf, TRUE) }

(* ---------------------------------------------------------------------- *)
(* Pages left without usable text                                          *)
(* ---------------------------------------------------------------------- *)

\* _extrair_paginas has returned and its OCR loop, if any, has run
Adquiriu == pc \notin {"extrair_paginas"}

\* the pages of the list that ended acquisition without usable text
SemTextoUtil == { i \in DOMAIN paginas : ~paginas[i].tem_texto }

ResultadoDeChamadaIsolada(locais) ==
  locais.pc = "retornou"
    => locais.resultado \in ResultadosDe(locais.pdf, OCR_DISPONIVEL, hoje)

\* C13: no step of a call writes to the database or to a module-level name,
\* and whatever the interleaving of two calls, each of them returns a result
\* that its document yields when the call runs alone.
C13_ChamadasIndependentes ==
  [][ /\ UNCHANGED <<banco, OCR_DISPONIVEL>>
      /\ ResultadoDeChamadaIsolada(
            [pdf |-> pdf', pc |-> pc', resultado |-> resultado'])
      /\ ResultadoDeChamadaIsolada(outra') ]_vars

\* C13 witness: a call on one document ran to its return while a call on a
\* different document was suspended between two of its steps, and an OCR
\* text was adopted by one of them.
C13_RetornouDuranteOutra ==
  /\ pc = "retornou"
  /\ outra.pc \in {"classificar", "identificacao", "nota_credito", "certidoes"}
  /\ outra.pdf # pdf
  /\ \E i \in DOMAIN paginas : paginas[i].fonte = "ocr"

(* ---------------------------------------------------------------------- *)
(* The contract quality gate                                               *)
(* ---------------------------------------------------------------------- *)

\* C14: _extrair_contrato returns None whenever fewer than 3 fields are
\* populated or none of the four key fields is populated.
C14_PortaoDeQualidade ==
  chamada.funcao = "_extrair_contrato" =>
    LET campos == UNION { CAMPOS_CONTRATO[l] : l \in chamada.entrada }
    IN  ( \/ Cardinality(campos) < 3
          \/ campos \cap {"nr_contrato_doc", "cnpj_contratada", "objeto",
                           "vigencia_inicio"} = {} )
          => ~chamada.saida.tem

\* C14 witness: exactly two fields populated, none of them a key field, and
\* the extraction returned None.
C14_DoisCamposSemChave ==
  /\ chamada.funcao = "_extrair_contrato"
  /\ chamada.entrada = {"UASG: 160136", "valor total de R$ 1.000,00"}
  /\ ~chamada.saida.tem

(* ---------------------------------------------------------------------- *)
(* Inference of the process type                                           *)
(* ---------------------------------------------------------------------- *)

\* C15: the inferred type is "Contrato" if a contract number, a checklist
\* page or a contract page is present; otherwise "Licitação" if an auction
\* number is present; otherwise "Contrato" if the tipo_empenho given by the
\* requisition parser is "Global" or "Estimativo", "Licitação" if it is
\* "Ordinário", and None for anything else (no tipo_empenho, or the
\* unaccented "Ordinario" that the parser keeps as captured).
C15_TipoInferido ==
  chamada.funcao = "_inferir_tipo_processo" =>
    LET e == chamada.entrada
        tipo_empenho == IF e.texto = {} THEN NULL
                        ELSE TIPO_EMPENHO[CHOOSE l \in e.texto : TRUE]
    IN  chamada.saida =
          IF \/ e.ident.nr_contrato # NULL
             \/ e.classif["checklist"] # << >>
             \/ e.classif["contrato"] # << >>
          THEN "Contrato"
          ELSE IF e.ident.nr_pregao # NULL THEN "Licitação"
          ELSE IF tipo_empenho \in {"Global", "Estimativo"} THEN "Contrato"
          ELSE IF tipo_empenho = "Ordinário" THEN "Licitação"
          ELSE NULL

\* C15 witness: no contract or auction number, no checklist or contract
\* page, the requisition declares "GLOBAL" and the type comes out "Contrato".
C15_SoEmpenhoGlobal ==
  /\ chamada.funcao = "_inferir_tipo_processo"
  /\ chamada.entrada.texto = {"Tipo de Empenho: GLOBAL"}
  /\ chamada.entrada.ident.nr_contrato = NULL
  /\ chamada.entrada.ident.nr_pregao = NULL
  /\ chamada.entrada.classif = [c \in CATEGORIAS |-> << >>]
  /\ chamada.saida = "Contrato"

(* ---------------------------------------------------------------------- *)
(* The supplier cascade                                                    *)
(* ---------------------------------------------------------------------- *)

\* C16: supplier name and CNPJ come from the requisition text, else from the
\* OCR of the requisition's embedded images, else from the SICAF data; a
\* value set by a stage is the value after every later stage.
C16_CascataFornecedor ==
  chamada.funcao = "fornecedor" =>
    LET e == chamada.entrada
        r == chamada.saida
    IN  \A campo \in {"fornecedor", "cnpj"} :
          /\ r.apos_req[campo] = e.req[campo]
          /\ r.apos_req[campo] # NULL => r.apos_ocr[campo] = r.apos_req[campo]
          /\ r.apos_ocr[campo] # NULL => r.apos_sicaf[campo] = r.apos_ocr[campo]
          /\ r.apos_sicaf[campo] =
                IF e.req[campo] # NULL THEN e.req[campo]
                ELSE IF e.ocr_disponivel /\ e.img[campo] # NULL THEN e.img[campo]
                ELSE IF e.tem_sicaf /\ e.sicaf[campo] # NULL THEN e.sicaf[campo]
                ELSE NULL

\* C16 witness: the requisition text gives the name only, the image OCR and
\* the SICAF both give name and CNPJ; the name stays the requisition's and
\* the CNPJ is the one of the image OCR.
C16_TresEstagiosComValor ==
  /\ chamada.funcao = "fornecedor"
  /\ chamada.entrada.ocr_disponivel /\ chamada.entrada.tem_sicaf
  /\ chamada.entrada.req.cnpj = NULL
  /\ chamada.entrada.img.fornecedor # NULL /\ chamada.entrada.sicaf.cnpj # NULL
  /\ chamada.saida.apos_sicaf.fornecedor = "EMPRESA REQ LTDA"
  /\ chamada.saida.apos_sicaf.cnpj = "22.222.222/0001-22"

(* ---------------------------------------------------------------------- *)
(* Ledger postings of the terminal-format credit note                      *)
(* ---------------------------------------------------------------------- *)

\* the (nd, ptres, fonte, ugr, pi, esf, valor) tuple of a posting
TuplaLancamento(l) == <<l.nd, l.ptres, l.fonte, l.ugr, l.pi, l.esf, l.valor>>

\* the postings differ from one another in the nature of expense only
SoDiferemNaND(linhas) ==
  \A i, j \in DOMAIN linhas :
    /\ [linhas[i] EXCEPT !.nd = ""] = [linhas[j] EXCEPT !.nd = ""]
    /\ i # j => linhas[i].nd # linhas[j].nd

\* C17: postings with an identical tuple collapse to one (the postings kept
\* have pairwise different tuples and are exactly the tuples of the input);
\* when the postings differ only in the nature of expense, every code has its
\* own balance, the value of its posting, and valor_total is their sum.
C17_LancamentosDeduplicados ==
  chamada.funcao = "_processar_linhas_evento_dd" =>
    LET com_dados == SelectSeq(chamada.entrada, LAMBDA l : l.tem_dados)
        r == chamada.saida
    IN  /\ \A i, j \in DOMAIN r.linhas_evento :
              i # j => TuplaLancamento(r.linhas_evento[i])
                         # TuplaLancamento(r.linhas_evento[j])
        /\ { TuplaLancamento(r.linhas_evento[i]) : i \in DOMAIN r.linhas_evento }
              = { TuplaLancamento(com_dados[i]) : i \in DOMAIN com_dados }
        /\ SoDiferemNaND(com_dados) =>
              /\ Len(r.linhas_evento) = Len(com_dados)
              /\ DOMAIN r.saldos_por_nd = { com_dados[i].nd : i \in DOMAIN com_dados }
              /\ \A i \in DOMAIN com_dados :
                    r.saldos_por_nd[com_dados[i].nd] = com_dados[i].valor
              /\ r.valor_total
                    = Len(com_dados) * (IF com_dados = << >> THEN 0
                                        ELSE com_dados[1].valor)

\* C17 witness: two identical postings and a third that differs from them in
\* the nature of expense only: two postings are kept, with two balances.
C17_DuasIguaisUmaOutraND ==
  /\ chamada.funcao = "_processar_linhas_evento_dd"
  /\ Len(chamada.entrada) = 3
  /\ chamada.entrada[1] = chamada.entrada[2]
  /\ chamada.entrada[1].tem_dados
  /\ SoDiferemNaND(<<chamada.entrada[1], chamada.entrada[3]>>)
  /\ Len(chamada.saida.linhas_evento) = 2
  /\ chamada.saida.valor_total = 2 * chamada.entrada[1].valor

(* ---------------------------------------------------------------------- *)
(* C18: relative deadlines of credit notes                                 *)
(* ---------------------------------------------------------------------- *)

\* the parser found no absolute deadline for nc but a relative phrase
\* "N DIAS", and the emission date of nc is known
PrazoSoRelativo(nc) ==
  /\ ~nc.dias_restantes.tem
  /\ nc.prazo_empenho \in DOMAIN DIAS_RELATIVOS
  /\ nc.data_emissao \in DOMAIN DATA_ORDINAL

MarcasDoBloco(bloco) ==
  UNION { LINHAS_REQ[bloco[i]].marcas : i \in DOMAIN bloco }

\* C19: a mask is returned only for a block that holds the primary
\* credit-note number, a nature-of-expense marker and a budget-or-instrument
\* marker, the fallback window being held to the requirement of the
\* numbered-field block (ND together with PI, PE or CONTRATO); a block that
\* lacks either marker gives no mask even when it holds the number
C19_MascaraSoComDoisMarcadores ==
  (chamada.funcao = "_extrair_mascara_requisitante" /\ chamada.saida.tem) =>
    /\ chamada.entrada.nc \in MarcasDoBloco(chamada.saida.v)
    /\ "ND" \in MarcasDoBloco(chamada.saida.v)
    /\ MarcasDoBloco(chamada.saida.v) \cap {"PI", "PE", "CONT"} # {}

(* ---------------------------------------------------------------------- *)
(* C20: the auction-number normalization is idempotent                     *)
(* ---------------------------------------------------------------------- *)

\* C20: normalizing an auction number a second time changes nothing; a
\* number of 5 digits comes back unchanged, a number of 4 digits that begins
\* with 9 gets a 0 after the 9 (9014/2024 becomes 90014/2024) and a number of
\* 3 digits gets the prefix 90 (004/2025 becomes 90004/2025)
C20_CorrecaoIdempotente ==
  chamada.funcao = "_corrigir_numero_pregao" =>
    LET numero == chamada.entrada
        uma == chamada.saida.uma
    IN  /\ chamada.saida.duas = uma
        /\ (Len(numero) = 2 /\ Len(numero[1]) = 5) => uma = numero
        /\ (Len(numero) = 2 /\ Len(numero[1]) = 4 /\ numero[1][1] = 9) =>
             /\ Len(uma[1]) = 5
             /\ uma[1][1] = 9 /\ uma[1][2] = 0
             /\ \A i \in 3..5 : uma[1][i] = numero[1][i - 1]
             /\ uma[2] = numero[2]
        /\ (Len(numero) = 2 /\ Len(numero[1]) = 3) =>
             /\ Len(uma[1]) = 5
             /\ uma[1][1] = 9 /\ uma[1][2] = 0
             /\ \A i \in 3..5 : uma[1][i] = numero[1][i - 2]
             /\ uma[2] = numero[2]
        /\ numero = << <<9, 0, 1, 4>>, <<2, 0, 2, 4>> >> =>
             uma = << <<9, 0, 0, 1, 4>>, <<2, 0, 2, 4>> >>
        /\ numero = << <<0, 0, 4>>, <<2, 0, 2, 5>> >> =>
             uma = << <<9, 0, 0, 0, 4>>, <<2, 0, 2, 5>> >>

\* a number of one digit was padded, prefixed, and is stable under a second
\* normalization
C20_UmDigitoCorrigido ==
  /\ chamada.funcao = "_corrigir_numero_pregao"
  /\ chamada.entrada = << <<4>>, <<2, 0, 2, 5>> >>
  /\ chamada.saida.uma = << <<9, 0, 0, 0, 4>>, <<2, 0, 2, 5>> >>
  /\ chamada.saida.duas = chamada.saida.uma

(* ---------------------------------------------------------------------- *)
(* C21: the worked example of the native item table                        *)
(* ---------------------------------------------------------------------- *)

\* C21: a table of the header row ITEM, DESCRIÇÃO, UND, QTD, P.UNT, P.TOTAL
\* and one data row with a numeric item number gives exactly one item, and
\* for the row 1, X, UN, 10,000, R$ 5,00, R$ 50,00 that item has the
\* quantity 10.0, the unit price 5.0 and the total price 50.0
C21_ExemploDaTabela ==
  ( /\ chamada.funcao = "_processar_tabela_itens"
    /\ Len(chamada.entrada) = 2
    /\ chamada.entrada[1] = <<"ITEM", "DESCRIÇÃO", "UND", "QTD", "P.UNT", "P.TOTAL">>
    /\ chamada.entrada[2][1] \in {"0", "1", "2"} ) =>
      /\ Len(chamada.saida) = 1
      /\ chamada.entrada[2] = <<"1", "X", "UN", "10,000", "R$ 5,00", "R$ 50,00">> =>
           /\ chamada.saida[1].qtd = Algum(1000)
           /\ chamada.saida[1].p_unit = Algum(500)
           /\ chamada.saida[1].p_total = Algum(5000)

(* ---------------------------------------------------------------------- *)
(* C22: the flexible date parser                                           *)
(* ---------------------------------------------------------------------- *)

\* the calendar date each token of the supported formats denotes
DataDenotada ==
  "12/01/2026" :> <<2026, 1, 12>> @@ "11/JAN/2026" :> <<2026, 1, 11>> @@
  "27 JAN 26" :> <<2026, 1, 27>> @@ "27Jan26" :> <<2026, 1, 27>> @@
  "30JUN2025" :> <<2025, 6, 30>> @@
  "05 de fevereiro de 2026" :> <<2026, 2, 5>>

\* C22: for a token of the supported formats (DD/MM/YYYY, DD/MMM/YYYY,
\* DD MMM YY, DDMmmYY, DDMMMYYYY, DD de <month> de YYYY) the flexible date
\* parser returns the calendar date the token denotes, and for a token of
\* no format it returns nothing
C22_DataDenotada ==
  chamada.funcao = "parse_data_flexivel" =>
    /\ chamada.entrada \in DOMAIN DataDenotada =>
         chamada.saida = Algum(DataDenotada[chamada.entrada])
    /\ chamada.entrada \in {"amanhã", "30 DIAS", "30"} => ~chamada.saida.tem

(* ---------------------------------------------------------------------- *)
(* C23: item numbers are positive                                          *)
(* ---------------------------------------------------------------------- *)

\* C23: every item the native table parser returns has an item number
\* that is a positive integer
C23_ItemPositivo ==
  chamada.funcao = "_processar_tabela_itens" =>
    \A i \in DOMAIN chamada.saida :
      chamada.saida[i].item \in Nat /\ chamada.saida[i].item >= 1

(* ---------------------------------------------------------------------- *)
(* C24: concurrent registrations of one number                            *)
(* ---------------------------------------------------------------------- *)

\* C24: whenever two registrations of the same auction number, or of the
\* same contract number, with different NUPs have both ended, neither raised
\* an error and the table holds exactly one row of that number whose
\* processos_vinculados names both NUPs.
C24_NenhumaAtualizacaoPerdida ==
  \A s, t \in SLOTS :
    LET a == sessoes.abertas[s]
        b == sessoes.abertas[t]
        tabela == IF a.reg.tabela = "pregoes" THEN pregoes ELSE contratos
        linhas == { i \in DOMAIN tabela : tabela[i].numero = ChaveRegistro(a.reg) }
    IN  ( /\ s # t
          /\ a.pc \in {"fim", "erro"}
          /\ b.pc \in {"fim", "erro"}
          /\ a.reg.tabela = b.reg.tabela
          /\ ChaveRegistro(a.reg) = ChaveRegistro(b.reg)
          /\ a.reg.nup # b.reg.nup )
        => /\ a.pc = "fim"
           /\ b.pc = "fim"
           /\ Cardinality(linhas) = 1
           /\ \A i \in linhas :
                {a.reg.nup, b.reg.nup} \subseteq Imagem(tabela[i].processos_vinculados)

(* ---------------------------------------------------------------------- *)
(* C25: the contract conclusion waits for the quality gate                *)
(* ---------------------------------------------------------------------- *)

\* C25: when extrair_processo has returned, pages were classified as contract
\* and the quality gate discarded their extraction, the result carries no
\* contract record; and if nothing else points to a contract (no contract
\* number in the identification, no checklist page, no global or estimated
\* commitment), the process type is not "Contrato".
C25_ContratoSoAposPortao ==
  ( /\ pc = "retornou"
    /\ classificadas["contrato"] # << >>
    /\ ~ExtrairContrato(JuntarTextoPaginas(paginas, classificadas["contrato"])).tem )
  => /\ ~resultado.contrato.tem
     /\ resultado.contrato.campos = {}
     /\ ( /\ resultado.identificacao.nr_contrato = NULL
          /\ classificadas["checklist"] = << >>
          /\ TipoEmpenhoMinusculo(resultado.identificacao)
               \notin {"global", "estimativo"} )
        => resultado.identificacao.tipo # "Contrato"

(* ---------------------------------------------------------------------- *)
(* C26: the positional CNPJ fallback                                      *)
(* ---------------------------------------------------------------------- *)

\* C26: when no CNPJ stands within reach of the contracted-party label, the
\* contracted-party CNPJ is the second CNPJ of the text if the text holds
\* exactly 2 CNPJs and stays null for any other number of CNPJs.
C26_PosicionalSoComDois ==
  ( /\ chamada.funcao = "_extrair_contrato: cnpjs"
    /\ CnpjProximo(chamada.entrada, "contratada") = NULL )
  => IF Len(TodosCnpjs(chamada.entrada)) = 2
     THEN chamada.saida.cnpj_contratada = TodosCnpjs(chamada.entrada)[2]
     ELSE chamada.saida.cnpj_contratada = NULL

(* ---------------------------------------------------------------------- *)
(* C27: the order of the credit-note parsers                              *)
(* ---------------------------------------------------------------------- *)

\* C27: on a non-empty section text, the terminal-format parser runs first
\* when the text holds a terminal-screen marker and does not run otherwise;
\* the generic parser runs only after it, and only if it yielded nothing or
\* no marker is present; the bare-number step runs only after the generic
\* parser yielded nothing, and then the list is one record per number, of
\* formato "nao_extraido"; the records returned are those of the first
\* parser that yielded any.
C27_OrdemDosParsers ==
  chamada.funcao = "_extrair_nota_credito" /\ chamada.entrada # << >> =>
    LET texto == chamada.entrada
        ex == chamada.saida.executados
        notas == chamada.saida.notas
        correu(p) == \E i \in DOMAIN ex : ex[i] = p
        formatos == { notas[i].formato : i \in DOMAIN notas }
    IN  /\ TemMarcadorDD(texto) <=> (ex # << >> /\ ex[1] = "demonstra_diario")
        /\ \A i \in DOMAIN ex : ex[i] = "demonstra_diario" => i = 1
        /\ correu("padrao") =>
             ~TemMarcadorDD(texto) \/ NumerosDemonstraDiario(texto) = << >>
        /\ ~correu("padrao") => formatos = {"demonstra_diario"}
        /\ correu("numeros") =>
             /\ NumerosPadrao(texto) = << >>
             /\ ex[Len(ex) - 1] = "padrao" /\ ex[Len(ex)] = "numeros"
             /\ notas = [ i \in DOMAIN NumerosNc(texto) |->
                            [numero |-> NumerosNc(texto)[i],
                             formato |-> "nao_extraido"] ]
        /\ correu("padrao") /\ ~correu("numeros") => formatos = {"padrao"}

\* a text with a marker and no number: the three steps ran in order
C27_TresPassos ==
  /\ chamada.funcao = "_extrair_nota_credito"
  /\ TemMarcadorDD(chamada.entrada)
  /\ chamada.saida.executados = <<"demonstra_diario", "padrao", "numeros">>

(* ---------------------------------------------------------------------- *)
(* C28: one credit note per distinct number                               *)
(* ---------------------------------------------------------------------- *)

\* C28: the list _extrair_nota_credito returns holds exactly one record for
\* each distinct credit-note number of the section text.
C28_UmaNotaPorNumero ==
  chamada.funcao = "_extrair_nota_credito" =>
    LET notas == chamada.saida.notas
        numeros == NumerosNc(chamada.entrada)
    IN  /\ Len(notas) = Len(numeros)
        /\ \A i \in DOMAIN numeros :
             \E k \in DOMAIN notas : notas[k].numero = numeros[i]

(* ---------------------------------------------------------------------- *)
(* C29: reconciling a credit note with the requisition only fills gaps    *)
(* ---------------------------------------------------------------------- *)

\* C29: after _complementar_nc_com_req, each of nd, ptres, fonte, ugr and pi
\* of a credit note is the value the note already had, or, where it had none,
\* the value of the identification; saldo is the balance the note already
\* had, or, where it had none, its valor_total; valor_total, numero and
\* formato are as before.
C29_SoPreencheLacunas ==
  chamada.funcao = "_complementar_nc_com_req" /\ ~chamada.saida.levantou =>
    /\ Len(chamada.saida.ncs) = Len(chamada.entrada.notas)
    /\ \A i \in DOMAIN chamada.entrada.notas :
         LET antes == chamada.entrada.notas[i]
             depois == chamada.saida.ncs[i]
             ident == chamada.entrada.ident
         IN  /\ \A campo \in DOMAIN CODIGOS_NC :
                  depois[campo] = IF antes[campo] # NULL THEN antes[campo]
                                  ELSE ident[campo]
             /\ depois.saldo = IF antes.saldo.tem THEN antes.saldo
                               ELSE antes.valor_total
             /\ depois.valor_total = antes.valor_total
             /\ depois.numero = antes.numero
             /\ depois.formato = antes.formato

\* the note had its own nd and a zero balance, lacked ptres, and the
\* requisition gave another nd and a ptres: nd and the balance stayed, ptres
\* was filled
C29_PreencheEMantem ==
  /\ chamada.funcao = "_complementar_nc_com_req"
  /\ Len(chamada.entrada.notas) = 1
  /\ chamada.entrada.notas[1].nd = CODIGOS_NC.nd
  /\ chamada.entrada.ident.nd = CODIGOS_REQ.nd
  /\ chamada.entrada.notas[1].ptres = NULL
  /\ chamada.entrada.notas[1].saldo = Algum(0)
  /\ chamada.entrada.notas[1].valor_total = Algum(900000)
  /\ chamada.saida.ncs[1].nd = CODIGOS_NC.nd
  /\ chamada.saida.ncs[1].ptres = CODIGOS_REQ.ptres
  /\ chamada.saida.ncs[1].saldo = Algum(0)

(* ---------------------------------------------------------------------- *)
(* C30: continuation rows of the native item table                        *)
(* ---------------------------------------------------------------------- *)

\* C30: the item returned for an item row is the item of that row with
\* catserv, und and qtd, where the row left them empty, taken from the first
\* row that has them among the rows with a blank item cell that stand within
\* the 2 rows after the item row and before the first row whose item cell is
\* filled and is not a total; every field the item row populated, and every
\* other field, is as the item row gave it.
C30_SoContinuacoesPreenchem ==
  ( /\ chamada.funcao = "_processar_tabela_itens"
    /\ Len(chamada.entrada) >= 2
    /\ MapearColunas(chamada.entrada[1])["item"] # 0 )
  => LET tabela == chamada.entrada
         n == Len(tabela)
         mapa == MapearColunas(tabela[1])
         celula_item(j) == Celula(tabela[j], mapa, "item")
         novo_item(j) == celula_item(j) # NULL /\ celula_item(j) # "TOTAL"
         eh_item(j) == j >= 2 /\ ProcessarLinhaItem(tabela[j], mapa).tem
         linhas_item == SelectSeq([j \in 1..n |-> j], eh_item)
         ultima(i) == IF i + CONTINUACOES <= n THEN i + CONTINUACOES ELSE n
         janela(i) == { j \in (i + 1)..ultima(i) :
                          \A x \in (i + 1)..j : ~novo_item(x) }
         fontes(i, campo) == { j \in janela(i) :
                                 /\ celula_item(j) = NULL
                                 /\ Celula(tabela[j], mapa, campo) # NULL }
         primeira(i, campo) ==
           Celula(tabela[CHOOSE j \in fontes(i, campo) :
                           \A y \in fontes(i, campo) : j <= y], mapa, campo)
         esperado(i) ==
           [ ProcessarLinhaItem(tabela[i], mapa).v EXCEPT
               !.catserv = IF @ # NULL \/ fontes(i, "catserv") = {} THEN @
                           ELSE primeira(i, "catserv"),
               !.und = IF @ # NULL \/ fontes(i, "und") = {} THEN @
                       ELSE primeira(i, "und"),
               !.qtd = IF @.tem \/ fontes(i, "qtd") = {} THEN @
                       ELSE Algum(PARSE_VALOR_BR[primeira(i, "qtd")]) ]
     IN  /\ Len(chamada.saida) = Len(linhas_item)
         /\ \A k \in DOMAIN linhas_item :
              chamada.saida[k] = esperado(linhas_item[k])

====
